---- MODULE Spec2Model ----
(***************************************************************************)
(* Size-mapping rule engine of the nail sizer API                          *)
(* (api/src/routes/recommend.ts): the per-finger rule matcher              *)
(* applyRulesToFinger and the POST /v1/recommend pipeline around it.       *)
(*                                                                         *)
(* Widths are integers in hundredths of a millimetre (10.5 mm = 1050), so  *)
(* that comparisons of widths, distances and the position thresholds 0.33  *)
(* and 0.67 are exact.                                                     *)
(***************************************************************************)
EXTENDS Integers, Sequences, FiniteSets, TLC

VARIABLES
    \* ---- the matcher applied to one input (specification SpecMatch) ----
    mRules,      \* the rule list passed to applyRulesToFinger
    mConfig,     \* the config passed to it
    mFinger,     \* fingerName
    mWidth,      \* widthMm
    mResult,     \* what the call produced (NotCalled before the call)
    \* ---- the repository (specification Spec) ----
    measurementsT,     \* rows of measurements: id -> fingers
    sizeRulesT,        \* rows of size_rules for chart 'default'
    configT,           \* the size_rules_config row of the chart, or NoRow
    nailSizesT,        \* rows of nail_sizes
    sizeSetsT,         \* rows of size_sets, in the order the repository lists them
    recommendationsT,  \* rows of recommendations, in insertion order
    \* ---- one POST /v1/recommend request in flight ----
    pc,          \* the handler's position
    body,        \* the request body
    loc,         \* the handler's local variables
    reads,       \* the repository reads the handler has performed, in order
    response,    \* the response sent (NoRow while the request runs)
    dbAtStart,   \* the repository as it was when the request arrived (<< >> at rest)
    \* ---- the other requests the server is handling (specification SpecConc) ----
    suspended,   \* the requests waiting at an await, each with its own pc, body, ...
    \* ---- the set ranking applied to one input (specification SpecSets) ----
    sSizes,      \* perFinger: the result for each of the five fingers
    sSets,       \* the rows of size_sets as the repository listed them
    sResult,     \* matchingSets and bestMatchSetId (NotCalled before the call)
    \* ---- the admin router (specifications SpecAdmin, SpecEdit) ----
    adminsT,     \* rows of admins
    jwtSecret,   \* process.env.JWT_SECRET (None when it is not set)
    ruleSerial,  \* the last id the size_rules serial has given out
    adminReq,    \* the admin request being answered (NoRow before the first)
    adminRes,    \* its response (NoRow before the first)
    snapshots,   \* the rule, config, catalog and set tables as they were at each instant
    \* ---- the rate limiter (specification SpecLimit) ----
    store,       \* the limiter's Map: key -> [count, resetAt]
    now,         \* Date.now()
    rlReq,       \* the request the limiter saw last (NoRow before the first)
    rlRes,       \* what it did with it (NoRow before the first)
    passed,      \* for each key, the times at which a request was passed to its handler
    \* ---- the rule previews applied to one input (specification SpecPreview) ----
    pResult,     \* the size of POST /v1/admin/rules/preview for the finger
    dResult      \* the answer of the dashboard's preview for the finger

mvars == <<mRules, mConfig, mFinger, mWidth, mResult>>
dbvars == <<measurementsT, sizeRulesT, configT, nailSizesT, sizeSetsT, recommendationsT>>
reqvars == <<pc, body, loc, reads, response, dbAtStart>>
concvars == <<suspended>>
svars == <<sSizes, sSets, sResult>>
admvars == <<adminsT, jwtSecret, ruleSerial, adminReq, adminRes, snapshots>>
rlvars == <<store, now, rlReq, rlRes, passed>>
pvvars == <<pResult, dResult>>
vars == <<mvars, dbvars, reqvars, concvars, svars, admvars, rlvars, pvvars>>

\* ------------------------------------------------------------------ bounds

\* the longest rule list handed to the matcher
MaxRules == 3

\* the most rows of size_rules
MaxStoredRules == 3

\* the most rows of recommendations (requests are accepted while below it)
MaxRecommendations == 2

\* the most requests waiting at an await while another one runs
MaxSuspended == 1

\* the longest listing of size_sets handed to the set ranking
MaxSets == 3

\* the most rows the size_rules serial gives out
MaxRuleSerial == 1

\* the last tick of the wall clock
MaxClock == 4

\* the most edits that reach the tables while one request is in flight
MaxEdits == 2

\* the limiters' maxRequests on the public and on the admin paths, and their
\* windowMs in ticks
PublicMax == 2

AdminMax == 3

WindowMs == 2

\* ------------------------------------------------------------------ types

fingerNames == <<"thumb", "index", "middle", "ring", "pinky">>

FingerNameSet == {fingerNames[i] : i \in 1..Len(fingerNames)}

NoRow == [none |-> TRUE]

\* a nullable value: null, or the value wrapped
None == << >>

Some(x) == <<x>>

Rule(f, lo, hi, size, prio) ==
    [finger |-> f, minWidthMm |-> lo, maxWidthMm |-> hi, mappedSize |-> size, priority |-> prio]

\* ------------------------------------------------- applyRulesToFinger

\* rules.filter((r) => r.finger === 'all' || r.finger === fingerName)
Relevant(rules, fingerName) ==
    SelectSeq(rules, LAMBDA r : r.finger = "all" \/ r.finger = fingerName)

\* CompareRules with the priorities compared the wrong way round
CompareRules_Ascending(a, b, fingerName) ==
    IF b.priority # a.priority THEN a.priority - b.priority
    ELSE IF a.finger = fingerName /\ b.finger = "all" THEN -1
    ELSE IF a.finger = "all" /\ b.finger = fingerName THEN 1
    ELSE 0

\* CompareRules without the finger-specific tie-break
CompareRules_NoTieBreak(a, b, fingerName) ==
    IF b.priority # a.priority THEN b.priority - a.priority ELSE 0

\* the comparator of relevant.sort: negative when a goes before b
CompareRules(a, b, fingerName) ==
    IF b.priority # a.priority THEN b.priority - a.priority
    ELSE IF a.finger = fingerName /\ b.finger = "all" THEN -1
    ELSE IF a.finger = "all" /\ b.finger = fingerName THEN 1
    ELSE 0

\* Array.prototype.sort is stable: x goes before the first element it is
\* strictly smaller than, after every element it compares equal to
RECURSIVE InsertSorted(_, _, _)
InsertSorted(x, s, fingerName) ==
    IF s = << >> THEN <<x>>
    ELSE IF CompareRules(x, Head(s), fingerName) < 0 THEN <<x>> \o s
    ELSE <<Head(s)>> \o InsertSorted(x, Tail(s), fingerName)

RECURSIVE SortRules(_, _)
SortRules(s, fingerName) ==
    IF s = << >> THEN << >>
    ELSE InsertSorted(s[Len(s)], SortRules(SubSeq(s, 1, Len(s) - 1), fingerName), fingerName)

\* SortedRelevant without the sort: the rules are scanned in input order
SortedRelevant_Unsorted(rules, fingerName) == Relevant(rules, fingerName)

\* relevant after the filter and the in-place sort
SortedRelevant(rules, fingerName) == SortRules(Relevant(rules, fingerName), fingerName)

\* widthMm >= rule.minWidthMm && widthMm <= rule.maxWidthMm
Contains(rule, widthMm) == widthMm >= rule.minWidthMm /\ widthMm <= rule.maxWidthMm

\* position as a fraction <<numerator, denominator>>:
\* range > 0 ? (widthMm - rule.minWidthMm) / range : 0.5
Position(rule, widthMm) ==
    LET range == rule.maxWidthMm - rule.minWidthMm
    IN  IF range > 0 THEN <<widthMm - rule.minWidthMm, range>> ELSE <<1, 2>>

\* FitOfPosition with the thresholds themselves counted as snug and loose
FitOfPosition_Inclusive(p) ==
    IF 100 * p[1] <= 33 * p[2] THEN "snug"
    ELSE IF 100 * p[1] >= 67 * p[2] THEN "loose"
    ELSE "standard"

\* position < 0.33 ? 'snug' : position > 0.67 ? 'loose' : 'standard'
FitOfPosition(p) ==
    IF 100 * p[1] < 33 * p[2] THEN "snug"
    ELSE IF 100 * p[1] > 67 * p[2] THEN "loose"
    ELSE "standard"

Abs(x) == IF x < 0 THEN -x ELSE x

Min2(a, b) == IF a <= b THEN a ELSE b

\* Math.min(Math.abs(widthMm - rule.minWidthMm), Math.abs(widthMm - rule.maxWidthMm))
BoundaryDiff(rule, widthMm) ==
    Min2(Abs(widthMm - rule.minWidthMm), Abs(widthMm - rule.maxWidthMm))

\* the index in relevant of the first rule whose range contains the width, 0 if none
RECURSIVE ExactScan(_, _, _)
ExactScan(relevant, widthMm, i) ==
    IF i > Len(relevant) THEN 0
    ELSE IF Contains(relevant[i], widthMm) THEN i
    ELSE ExactScan(relevant, widthMm, i + 1)

\* NearestScan with diff <= nearestDiff: the last rule of equal distance wins
RECURSIVE NearestScan_LastWins(_, _, _, _, _, _)
NearestScan_LastWins(relevant, widthMm, toleranceMm, i, nearest, nearestDiff) ==
    IF i > Len(relevant) THEN nearest
    ELSE LET diff == BoundaryDiff(relevant[i], widthMm)
         IN  IF diff <= toleranceMm /\ (nearest = 0 \/ diff <= nearestDiff)
             THEN NearestScan_LastWins(relevant, widthMm, toleranceMm, i + 1, i, diff)
             ELSE NearestScan_LastWins(relevant, widthMm, toleranceMm, i + 1, nearest, nearestDiff)

\* the tolerance loop from rule i on; nearest is the index of nearestRule (0 is
\* null) and nearestDiff its diff (Infinity while nearest = 0)
RECURSIVE NearestScan(_, _, _, _, _, _)
NearestScan(relevant, widthMm, toleranceMm, i, nearest, nearestDiff) ==
    IF i > Len(relevant) THEN nearest
    ELSE LET diff == BoundaryDiff(relevant[i], widthMm)
         IN  IF diff <= toleranceMm /\ (nearest = 0 \/ diff < nearestDiff)
             THEN NearestScan(relevant, widthMm, toleranceMm, i + 1, i, diff)
             ELSE NearestScan(relevant, widthMm, toleranceMm, i + 1, nearest, nearestDiff)

\* ClosestScan that keeps its initial closestRule, relevant[0]
ClosestScan_KeepsFirst(relevant, widthMm, i, closest, hasDiff, closestDiff) == closest

\* the last-resort loop from rule i on; closest is the index of closestRule,
\* which starts as relevant[0] (index 1; 0 stands for undefined, when relevant is
\* empty), and hasDiff tells whether closestDiff is still Infinity
RECURSIVE ClosestScan(_, _, _, _, _, _)
ClosestScan(relevant, widthMm, i, closest, hasDiff, closestDiff) ==
    IF i > Len(relevant) THEN closest
    ELSE LET diff == BoundaryDiff(relevant[i], widthMm)
         IN  IF ~hasDiff \/ diff < closestDiff
             THEN ClosestScan(relevant, widthMm, i + 1, i, TRUE, diff)
             ELSE ClosestScan(relevant, widthMm, i + 1, closest, hasDiff, closestDiff)

\* applyRulesToFinger without the last-resort branch (as the admin preview's
\* abbreviated copy of the matcher has none)
applyRulesToFinger_NoLastResort(widthMm, fingerName, rules, config) ==
    LET relevant == SortedRelevant(rules, fingerName)
        exact == ExactScan(relevant, widthMm, 1)
        nearest == NearestScan(relevant, widthMm, config.toleranceMm, 1, 0, 0)
    IN  IF exact # 0
        THEN [kind |-> "ok", size |-> relevant[exact].mappedSize,
              fit |-> FitOfPosition(Position(relevant[exact], widthMm)), line |-> 52]
        ELSE IF nearest # 0
        THEN [kind |-> "ok", size |-> relevant[nearest].mappedSize,
              fit |-> IF config.betweenSizes = "size_down" THEN "snug" ELSE "loose",
              line |-> 73]
        ELSE [kind |-> "TypeError"]

\* The call's outcome. kind "ok" carries the returned {size, fit} and the line of
\* the return statement that produced it (52 exact match, 73 tolerance, 90 last
\* resort); kind "TypeError" is closestRule.mappedSize read on undefined.
applyRulesToFinger(widthMm, fingerName, rules, config) ==
    LET relevant == SortedRelevant(rules, fingerName)
        exact == ExactScan(relevant, widthMm, 1)
        nearest == NearestScan(relevant, widthMm, config.toleranceMm, 1, 0, 0)
        closest == ClosestScan(relevant, widthMm, 1, IF relevant = << >> THEN 0 ELSE 1, FALSE, 0)
    IN  IF exact # 0
        THEN [kind |-> "ok", size |-> relevant[exact].mappedSize,
              fit |-> FitOfPosition(Position(relevant[exact], widthMm)), line |-> 52]
        ELSE IF nearest # 0
        THEN [kind |-> "ok", size |-> relevant[nearest].mappedSize,
              fit |-> IF config.betweenSizes = "size_down" THEN "snug" ELSE "loose",
              line |-> 73]
        ELSE IF closest = 0
        THEN [kind |-> "TypeError"]
        ELSE [kind |-> "ok", size |-> relevant[closest].mappedSize,
              fit |-> "standard", line |-> 90]

\* ------------------------------------------ the matcher on bounded inputs

\* the fingers the matcher is called for
MatchFingers == {"thumb", "index"}

\* rules over two disjoint ranges 10.00-11.00 and 11.50-13.00, the zero-width
\* range 11.00-11.00 and an inverted range (PUT /v1/admin/rules/:id stores
\* min and max unchecked), each with its own mappedSize
MatchRules ==
    { Rule("all",   1000, 1100, 9, 0), Rule("all",   1000, 1100, 8, 1),
      Rule("thumb", 1000, 1100, 5, 0), Rule("thumb", 1000, 1100, 4, 1),
      Rule("index", 1000, 1100, 2, 1),
      Rule("all",   1150, 1300, 7, 0), Rule("all",   1150, 1300, 6, 1),
      Rule("all",   1100, 1100, 0, 0), Rule("all",   1130, 1125, 3, 0) }

RuleLists == UNION {[1..n -> MatchRules] : n \in 0..MaxRules}

MatchWidths == {970, 1032, 1033, 1067, 1068, 1100, 1120, 1125}

Config(policy, tol) == [betweenSizes |-> policy, toleranceMm |-> tol]

MatchConfigs == {Config("size_down", 30), Config("size_up", 30), Config("size_down", 0)}

NotCalled == [kind |-> "none"]

\* the request handler at rest
ReqIdle ==
    /\ pc = "idle"
    /\ body = NoRow
    /\ loc = NoRow
    /\ reads = << >>
    /\ response = NoRow
    /\ dbAtStart = << >>
    /\ suspended = << >>

\* the set ranking before its call
RankIdle ==
    /\ sSizes = NoRow
    /\ sSets = << >>
    /\ sResult = NotCalled

\* the admin router before its first request
AdminIdle ==
    /\ adminsT = {}
    /\ jwtSecret = None
    /\ ruleSerial = 0
    /\ adminReq = NoRow
    /\ adminRes = NoRow
    /\ snapshots = {}

\* the rate limiter before its first request
LimiterIdle ==
    /\ store = << >>
    /\ now = 0
    /\ rlReq = NoRow
    /\ rlRes = NoRow
    /\ passed = << >>

\* the previews before their call
PreviewIdle ==
    /\ pResult = NotCalled
    /\ dResult = NotCalled

MatchInit ==
    /\ mRules \in RuleLists
    /\ mConfig \in MatchConfigs
    /\ mFinger \in MatchFingers
    /\ mWidth \in MatchWidths
    /\ mResult = NotCalled
    /\ measurementsT = << >>
    /\ sizeRulesT = {}
    /\ configT = NoRow
    /\ nailSizesT = {}
    /\ sizeSetsT = << >>
    /\ recommendationsT = << >>
    /\ ReqIdle
    /\ RankIdle
    /\ AdminIdle
    /\ LimiterIdle
    /\ PreviewIdle

\* one call applyRulesToFinger(widthMm, fingerName, rules, config)
MatchCall ==
    /\ mResult = NotCalled
    /\ mResult' = applyRulesToFinger(mWidth, mFinger, mRules, mConfig)
    /\ UNCHANGED <<mRules, mConfig, mFinger, mWidth, dbvars, reqvars, concvars, admvars, rlvars, pvvars, svars>>

MatchNext == MatchCall

SpecMatch == MatchInit /\ [][MatchNext]_vars

\* --------------------------------------------- properties of the matcher
\* Stated on the inputs of the call, independently of the definitions above.

Called == mResult # NotCalled

\* positions in the input list of the rules applicable to the finger
AppIdx == {i \in 1..Len(mRules) : mRules[i].finger = mFinger \/ mRules[i].finger = "all"}

\* ... of those whose inclusive range contains the width
ContIdx == {i \in AppIdx : mRules[i].minWidthMm <= mWidth /\ mWidth <= mRules[i].maxWidthMm}

IsSpecific(i) == mRules[i].finger = mFinger

\* rule i ranks strictly before rule j: higher priority, or the same priority and
\* finger-specific against 'all'
Outranks(i, j) ==
    \/ mRules[i].priority > mRules[j].priority
    \/ /\ mRules[i].priority = mRules[j].priority
       /\ IsSpecific(i)
       /\ ~IsSpecific(j)

\* the containing rules no containing rule outranks
TopIdx == {i \in ContIdx : \A j \in ContIdx : ~Outranks(j, i)}

SizesOf(I) == {mRules[i].mappedSize : i \in I}

Fits == {"snug", "standard", "loose"}

\* C1 (exact-match precedence): when some applicable rule's inclusive range
\* contains the width, the call returns from the exact-match branch with the
\* mappedSize of a containing rule that ranks first (priority descending,
\* finger-specific before 'all' on equal priority).
C1_ExactMatchPrecedence ==
    (Called /\ ContIdx # {}) =>
        /\ mResult.kind = "ok"
        /\ mResult.line = 52
        /\ mResult.size \in SizesOf(TopIdx)

\* a call where a containing rule is outranked by another one and the first rule
\* of the input list is not the winner
C1_Witness ==
    /\ Called
    /\ \E i \in ContIdx, j \in ContIdx : Outranks(i, j)
    /\ 1 \in ContIdx
    /\ 1 \notin TopIdx
    /\ mResult.kind = "ok"
    /\ mResult.line = 52

\* C2 (fallback totality): with an applicable rule but none containing the
\* width, the call returns a size (one of the applicable rules') and a fit
\* from {snug, standard, loose}; it does not throw.
C2_FallbackTotality ==
    (Called /\ AppIdx # {} /\ ContIdx = {}) =>
        /\ mResult.kind = "ok"
        /\ mResult.size \in SizesOf(AppIdx)
        /\ mResult.fit \in Fits

\* a call that went through the last-resort branch
C2_Witness ==
    /\ Called
    /\ AppIdx # {}
    /\ ContIdx = {}
    /\ mResult.kind = "ok"
    /\ mResult.line = 90

\* the containing rules of the highest priority among the containing rules
MaxPrioIdx == {i \in ContIdx : \A j \in ContIdx : mRules[j].priority <= mRules[i].priority}

\* the input list with the rules at positions i and j exchanged
Swapped(i, j) ==
    [k \in 1..Len(mRules) |->
        IF k = i THEN mRules[j] ELSE IF k = j THEN mRules[i] ELSE mRules[k]]

\* C5 (priority dominance): when containing rules of different priorities
\* exist, the call returns the mappedSize of a containing rule of the highest
\* priority, and so does the call on the list with any two of its rules
\* exchanged. Every rule list is the input of some state and every
\* permutation is a chain of exchanges, so this covers every permutation of
\* the input list.
C5_PriorityDominance ==
    (Called /\ \E i \in ContIdx, j \in ContIdx : mRules[i].priority # mRules[j].priority) =>
        /\ mResult.kind = "ok"
        /\ mResult.size \in SizesOf(MaxPrioIdx)
        /\ \A i \in 1..Len(mRules), j \in 1..Len(mRules) :
              i < j =>
                 LET r == applyRulesToFinger(mWidth, mFinger, Swapped(i, j), mConfig)
                 IN  r.kind = "ok" /\ r.size \in SizesOf(MaxPrioIdx)

\* a call where the lower-priority containing rule comes first in the input
\* list and has another mappedSize than the result
C5_Witness ==
    /\ Called
    /\ \E i \in ContIdx, j \in ContIdx :
          /\ i < j
          /\ mRules[i].priority < mRules[j].priority
          /\ mResult.kind = "ok"
          /\ mResult.size = mRules[j].mappedSize
          /\ mResult.size # mRules[i].mappedSize

\* C6 (tie-break): when an 'all' rule and a finger-specific rule both contain
\* the width at the highest priority among the containing rules, the call
\* returns a finger-specific rule's mappedSize (in every state, hence for
\* either order of the two rules in the input list).
C6_TieBreak ==
    (Called /\ \E i \in MaxPrioIdx, j \in MaxPrioIdx : IsSpecific(i) /\ ~IsSpecific(j)) =>
        /\ mResult.kind = "ok"
        /\ mResult.size \in SizesOf({i \in MaxPrioIdx : IsSpecific(i)})

\* a call where the 'all' rule of the tie comes first in the input list
C6_Witness ==
    /\ Called
    /\ \E i \in MaxPrioIdx, j \in MaxPrioIdx :
          /\ i < j
          /\ ~IsSpecific(i)
          /\ IsSpecific(j)
          /\ mResult.kind = "ok"
          /\ mResult.size = mRules[j].mappedSize
          /\ mResult.size # mRules[i].mappedSize

\* the fit the position of the width in rule i stands for: position =
\* (width - min) / (max - min), 0.5 for a zero-width range
RefFit(i) ==
    LET lo == mRules[i].minWidthMm
        hi == mRules[i].maxWidthMm
    IN  IF hi = lo THEN "standard"
        ELSE IF 100 * (mWidth - lo) < 33 * (hi - lo) THEN "snug"
        ELSE IF 100 * (mWidth - lo) > 67 * (hi - lo) THEN "loose"
        ELSE "standard"

\* C7 (fit by position): in the exact-match branch the fit is snug for
\* position < 0.33, loose for position > 0.67 and standard otherwise (0.33 and
\* 0.67 included), the position being that of the winning rule and 0.5 for a
\* zero-width range.
C7_FitByPosition ==
    (Called /\ ContIdx # {}) =>
        \E i \in TopIdx :
            /\ mResult.kind = "ok"
            /\ mResult.size = mRules[i].mappedSize
            /\ mResult.fit = RefFit(i)

\* a call whose width sits exactly at position 0.33 of the winning rule
C7_Witness ==
    /\ Called
    /\ mResult.kind = "ok"
    /\ mResult.line = 52
    /\ mResult.fit = "standard"
    /\ \E i \in TopIdx :
          /\ mResult.size = mRules[i].mappedSize
          /\ mRules[i].maxWidthMm > mRules[i].minWidthMm
          /\ 100 * (mWidth - mRules[i].minWidthMm) = 33 * (mRules[i].maxWidthMm - mRules[i].minWidthMm)

\* a call won by a zero-width range
C7_WitnessZeroWidth ==
    /\ Called
    /\ mResult.kind = "ok"
    /\ mResult.line = 52
    /\ \A i \in TopIdx : mRules[i].maxWidthMm = mRules[i].minWidthMm

AbsDiff(x, y) == IF x > y THEN x - y ELSE y - x

\* boundary distance min(|w - min|, |w - max|) of rule i
Dist(i) ==
    LET a == AbsDiff(mWidth, mRules[i].minWidthMm)
        b == AbsDiff(mWidth, mRules[i].maxWidthMm)
    IN  IF a < b THEN a ELSE b

\* rule i is scanned before rule j: it ranks before it, or ranks the same and
\* comes first in the input list
ScanBefore(i, j) == Outranks(i, j) \/ (~Outranks(j, i) /\ i < j)

WithinTol == {i \in AppIdx : Dist(i) <= mConfig.toleranceMm}

\* the rule within tolerance of the smallest distance, the first one scanned
\* among those of equal distance
TolWinner ==
    {i \in WithinTol : \A j \in WithinTol \ {i} :
        Dist(i) < Dist(j) \/ (Dist(i) = Dist(j) /\ ScanBefore(i, j))}

\* C8 (tolerance fallback): with no containing rule and an applicable rule
\* within toleranceMm, the call returns the mappedSize of the rule of the
\* smallest distance, a tie going to the rule that comes first in the filtered
\* list (the list as the matcher scans it: priority descending, finger-
\* specific first, then input order); the fit is snug for size_down and loose
\* otherwise.
C8_ToleranceFallback ==
    (Called /\ ContIdx = {} /\ WithinTol # {}) =>
        /\ mResult.kind = "ok"
        /\ mResult.size \in SizesOf(TolWinner)
        /\ mResult.fit = IF mConfig.betweenSizes = "size_down" THEN "snug" ELSE "loose"

\* a call with two rules of different mappedSize at the same distance within
\* tolerance, the one scanned first coming second in the input list
C8_Witness ==
    /\ Called
    /\ ContIdx = {}
    /\ mResult.kind = "ok"
    /\ mResult.line = 73
    /\ \E i \in WithinTol, j \in WithinTol :
          /\ i < j
          /\ Dist(i) = Dist(j)
          /\ ScanBefore(j, i)
          /\ mRules[i].mappedSize # mRules[j].mappedSize

\* the applicable rules of the globally smallest boundary distance
ClosestIdx == {i \in AppIdx : \A j \in AppIdx : Dist(i) <= Dist(j)}

\* C9 (last resort): with an applicable rule, no containing rule and no rule
\* within toleranceMm, the call returns the mappedSize of an applicable rule
\* of the globally smallest boundary distance, with fit standard.
C9_LastResort ==
    (Called /\ AppIdx # {} /\ ContIdx = {} /\ WithinTol = {}) =>
        /\ mResult.kind = "ok"
        /\ mResult.size \in SizesOf(ClosestIdx)
        /\ mResult.fit = "standard"

\* a last-resort call where the closest rule is not the first one scanned
C9_Witness ==
    /\ Called
    /\ ContIdx = {}
    /\ WithinTol = {}
    /\ mResult.kind = "ok"
    /\ mResult.line = 90
    /\ \E i \in AppIdx, j \in ClosestIdx :
          /\ ScanBefore(i, j)
          /\ Dist(j) < Dist(i)

\* ------------------------------------------------ POST /v1/recommend

DigitChars == <<"0", "1", "2", "3", "4", "5", "6", "7", "8", "9">>

\* String(n), as a sequence of characters
RECURSIVE DecimalString(_)
DecimalString(n) ==
    IF n < 0 THEN <<"-">> \o DecimalString(-n)
    ELSE IF n < 10 THEN <<DigitChars[n + 1]>>
    ELSE DecimalString(n \div 10) \o DecimalString(n % 10)

\* parts.join(sep)
RECURSIVE Join(_, _)
Join(parts, sep) ==
    IF parts = << >> THEN << >>
    ELSE IF Len(parts) = 1 THEN parts[1]
    ELSE parts[1] \o sep \o Join(Tail(parts), sep)

\* the rows of `select ... from size_rules ... order by priority desc`: any
\* listing of the rows with the priorities descending (SQL leaves the order of
\* equal priorities open)
RuleListings(table) ==
    {l \in [1..Cardinality(table) -> table] :
        /\ \A i, j \in 1..Cardinality(table) : l[i] = l[j] => i = j
        /\ \A i \in 1..(Cardinality(table) - 1) : l[i].priority >= l[i + 1].priority}

\* the default toleranceMm 0.3, in hundredths of a millimetre
DefaultToleranceMm == 30

\* EffectiveConfig substituting size_up for an absent row
EffectiveConfig_SizeUp(row) ==
    IF row = NoRow THEN [betweenSizes |-> "size_up", toleranceMm |-> DefaultToleranceMm]
    ELSE row

EffectiveConfig(row) ==
    IF row = NoRow THEN [betweenSizes |-> "size_down", toleranceMm |-> DefaultToleranceMm]
    ELSE row

\* sizeLabel falling back to String(sizeNumber) only when no row is found: a
\* row without a label gives the empty string
sizeLabel_RowOnly(sizeRows, sizeNumber) ==
    LET found == {r \in sizeRows : r.sizeNumber = sizeNumber}
    IN  IF found = {} THEN DecimalString(sizeNumber)
        ELSE LET row == CHOOSE r \in found : TRUE
             IN  IF row.label = None THEN << >> ELSE row.label[1]

\* sizeRows.find((s) => s.sizeNumber === sizeNumber)?.label ?? String(sizeNumber)
\* (sizeNumber is unique per chart, so find has at most one candidate)
sizeLabel(sizeRows, sizeNumber) ==
    LET found == {r \in sizeRows : r.sizeNumber = sizeNumber}
    IN  IF found = {} THEN DecimalString(sizeNumber)
        ELSE LET row == CHOOSE r \in found : TRUE
             IN  IF row.label = None THEN DecimalString(sizeNumber) ELSE row.label[1]

\* the loop over fingerNames from position i on, perFinger holding the results
\* so far: the complete perFinger, the first finger the measurement lacks, or
\* the TypeError thrown by applyRulesToFinger
RECURSIVE PerFingerLoop(_, _, _, _, _, _)
PerFingerLoop(i, perFinger, fingers, rules, config, sizeRows) ==
    IF i > Len(fingerNames) THEN [kind |-> "ok", perFinger |-> perFinger]
    ELSE LET name == fingerNames[i]
         IN  IF name \notin DOMAIN fingers THEN [kind |-> "missing", finger |-> name]
             ELSE LET w == fingers[name].curve_adj_width_mm
                      r == applyRulesToFinger(w, name, rules, config)
                  IN  IF r.kind # "ok" THEN [kind |-> r.kind]
                      ELSE PerFingerLoop(i + 1,
                               perFinger @@ (name :> [size |-> r.size,
                                                      size_label |-> sizeLabel(sizeRows, r.size),
                                                      width_mm |-> w,
                                                      fit |-> r.fit]),
                               fingers, rules, config, sizeRows)

\* SizeProfile with the fingers taken in the reverse order
SizeProfile_Reversed(perFinger) ==
    Join([i \in 1..Len(fingerNames) |->
            DecimalString(perFinger[fingerNames[Len(fingerNames) + 1 - i]].size)], <<"-">>)

\* fingerNames.map((n) => perFinger[n].size).join('-')
SizeProfile(perFinger) ==
    Join([i \in 1..Len(fingerNames) |-> DecimalString(perFinger[fingerNames[i]].size)], <<"-">>)

\* sets with more differing fingers than this are left out of matching_sets
MaxSetDiff == 2

\* fingerNames.filter((n) => perFinger[n].size !== setMap[n]).length
SetDiff(perFinger, set) ==
    Cardinality({i \in 1..Len(fingerNames) : perFinger[fingerNames[i]].size # set.sizes[fingerNames[i]]})

\* sets.map(...): one entry per set, in the order of the listing
SetEntries(perFinger, sets) ==
    [k \in 1..Len(sets) |->
        [set_name |-> sets[k].name, set_id |-> <<"set_", sets[k].id>>,
         exact_match |-> (SetDiff(perFinger, sets[k]) = 0),
         diff |-> SetDiff(perFinger, sets[k]), id |-> sets[k].id]]

\* InsertByDiff placing an entry before the entries of the same diff
RECURSIVE InsertByDiff_BeforeEqual(_, _)
InsertByDiff_BeforeEqual(x, s) ==
    IF s = << >> THEN <<x>>
    ELSE IF x.diff - Head(s).diff <= 0 THEN <<x>> \o s
    ELSE <<Head(s)>> \o InsertByDiff_BeforeEqual(x, Tail(s))

\* .sort((a, b) => a.diff - b.diff), stable
RECURSIVE InsertByDiff(_, _)
InsertByDiff(x, s) ==
    IF s = << >> THEN <<x>>
    ELSE IF x.diff - Head(s).diff < 0 THEN <<x>> \o s
    ELSE <<Head(s)>> \o InsertByDiff(x, Tail(s))

RECURSIVE SortByDiff(_)
SortByDiff(s) ==
    IF s = << >> THEN << >>
    ELSE InsertByDiff(s[Len(s)], SortByDiff(SubSeq(s, 1, Len(s) - 1)))

\* matchingSets keeping only the sets with fewer than two differences
matchingSets_StrictFilter(perFinger, sets) ==
    SortByDiff(SelectSeq(SetEntries(perFinger, sets), LAMBDA e : e.diff < MaxSetDiff))

\* sets.map(...).filter((s) => s.diff <= 2).sort(...)
matchingSets(perFinger, sets) ==
    SortByDiff(SelectSeq(SetEntries(perFinger, sets), LAMBDA e : e.diff <= MaxSetDiff))

\* bestMatchSetId taking the last entry of the ranking
bestMatchSetId_Last(matching) ==
    IF matching = << >> THEN None ELSE Some(matching[Len(matching)].id)

\* matchingSets[0]?._id ?? null
bestMatchSetId(matching) == IF matching = << >> THEN None ELSE Some(matching[1].id)

\* { n: { size, label, fit } } for the five fingers
sizesJson(perFinger) ==
    [n \in FingerNameSet |->
        [size |-> perFinger[n].size, label |-> perFinger[n].size_label, fit |-> perFinger[n].fit]]

\* matchingSets.map(({ _id, ...s }) => s)
PublicSets(matching) ==
    [k \in 1..Len(matching) |->
        [set_name |-> matching[k].set_name, set_id |-> matching[k].set_id,
         exact_match |-> matching[k].exact_match, diff |-> matching[k].diff]]

\* c.json({ error, message }, status)
ErrorResponse(status, code, message) == [status |-> status, error |-> code, message |-> message]

\* the handler's locals before anything is assigned
NoLocals ==
    [measurement |-> NoRow, rules |-> << >>, effectiveConfig |-> NoRow, sizeRows |-> {},
     perFinger |-> << >>, sizeProfile |-> << >>, matchingSets |-> << >>]

\* ---- the repository contents and requests the pipeline is run on ----

FingerData(w) == [curve_adj_width_mm |-> w]

\* two complete measurements, and one that lacks the middle finger
StoredMeasurements ==
    ("msr_full" :> [thumb |-> FingerData(1050), index |-> FingerData(1033),
                    middle |-> FingerData(1120), ring |-> FingerData(970),
                    pinky |-> FingerData(1400)])
    @@ ("msr_part" :> [thumb |-> FingerData(1050), index |-> FingerData(1033),
                       ring |-> FingerData(970), pinky |-> FingerData(1400)])
    @@ ("msr_wide" :> [thumb |-> FingerData(1180), index |-> FingerData(1160),
                       middle |-> FingerData(1200), ring |-> FingerData(1150),
                       pinky |-> FingerData(1250)])

HandlerRules ==
    { Rule("all",   1000, 1100, 9, 0), Rule("thumb", 1000, 1100, 12, 1),
      Rule("all",   1150, 1300, 3, 0), Rule("all",   1040, 1200, 7, 0) }

RuleTables == {t \in SUBSET HandlerRules : Cardinality(t) <= MaxStoredRules}

ConfigRows == {NoRow, Config("size_down", 30), Config("size_up", 30), Config("size_down", 0)}

Catalogs ==
    { {},
      { [sizeNumber |-> 9, label |-> Some(<<"X", "S">>)], [sizeNumber |-> 3, label |-> None] } }

SizeSet(id, name, t, i, m, r, p) ==
    [id |-> id, name |-> name,
     sizes |-> [thumb |-> t, index |-> i, middle |-> m, ring |-> r, pinky |-> p]]

SetTables ==
    { << >>,
      << SizeSet(1, "Small", 3, 3, 3, 3, 3), SizeSet(2, "Mixed", 12, 9, 9, 9, 3),
         SizeSet(3, "Large", 9, 9, 9, 9, 3) >> }

\* request bodies: not JSON, JSON without measurement_id, with an empty one,
\* with the id of a stored measurement, with an unknown id
Bodies ==
    { [json |-> FALSE],
      [json |-> TRUE, measurement_id |-> None],
      [json |-> TRUE, measurement_id |-> Some("")],
      [json |-> TRUE, measurement_id |-> Some("msr_full")],
      [json |-> TRUE, measurement_id |-> Some("msr_part")],
      [json |-> TRUE, measurement_id |-> Some("msr_wide")],
      [json |-> TRUE, measurement_id |-> Some("msr_unknown")] }

Init ==
    /\ measurementsT = StoredMeasurements
    /\ sizeRulesT \in RuleTables
    /\ configT \in ConfigRows
    /\ nailSizesT \in Catalogs
    /\ sizeSetsT \in SetTables
    /\ recommendationsT = << >>
    /\ ReqIdle
    /\ RankIdle
    /\ AdminIdle
    /\ LimiterIdle
    /\ PreviewIdle
    /\ mRules = << >>
    /\ mConfig = NoRow
    /\ mFinger = "thumb"
    /\ mWidth = 0
    /\ mResult = NotCalled

\* ---- the handler, one action per stretch between two awaits ----

\* RecvRequest looking the measurement up before it has checked the body
RecvRequest_ReadsFirst ==
    /\ pc = "idle"
    /\ Len(recommendationsT) < MaxRecommendations
    /\ \E b \in Bodies :
        /\ body' = b
        /\ loc' = NoLocals
        /\ reads' = <<"measurements">>
        /\ dbAtStart' = dbvars
        /\ IF ~b.json
           THEN /\ response' = ErrorResponse(400, "validation_error", <<"Request body must be JSON">>)
                /\ pc' = "done"
           ELSE IF b.measurement_id = None \/ b.measurement_id = Some("")
           THEN /\ response' = ErrorResponse(400, "validation_error", <<"measurement_id is required">>)
                /\ pc' = "done"
           ELSE /\ response' = NoRow
                /\ pc' = "fetchMeasurement"
    /\ UNCHANGED <<mvars, dbvars, concvars, admvars, rlvars, pvvars, svars>>

\* lines 101-110: parse the body, require measurement_id
RecvRequest ==
    /\ pc = "idle"
    /\ Len(recommendationsT) < MaxRecommendations
    /\ \E b \in Bodies :
        /\ body' = b
        /\ loc' = NoLocals
        /\ reads' = << >>
        /\ dbAtStart' = dbvars
        /\ IF ~b.json
           THEN /\ response' = ErrorResponse(400, "validation_error", <<"Request body must be JSON">>)
                /\ pc' = "done"
           ELSE IF b.measurement_id = None \/ b.measurement_id = Some("")
           THEN /\ response' = ErrorResponse(400, "validation_error", <<"measurement_id is required">>)
                /\ pc' = "done"
           ELSE /\ response' = NoRow
                /\ pc' = "fetchMeasurement"
    /\ UNCHANGED <<mvars, dbvars, concvars, admvars, rlvars, pvvars, svars>>

\* lines 112-120: 1. Fetch measurement
FetchMeasurement ==
    /\ pc = "fetchMeasurement"
    /\ reads' = Append(reads, "measurements")
    /\ IF body.measurement_id[1] \in DOMAIN measurementsT
       THEN /\ loc' = [loc EXCEPT !.measurement = [fingers |-> measurementsT[body.measurement_id[1]]]]
            /\ pc' = "fetchRules"
            /\ UNCHANGED response
       ELSE /\ response' = ErrorResponse(404, "not_found", <<"Measurement not found">>)
            /\ pc' = "done"
            /\ UNCHANGED loc
    /\ UNCHANGED <<body, dbAtStart, concvars, admvars, rlvars, pvvars, svars, mvars, dbvars>>

\* FetchRules without the check that the rule list is empty
FetchRules_NoEmptyCheck ==
    /\ pc = "fetchRules"
    /\ reads' = Append(reads, "size_rules")
    /\ \E rules \in RuleListings(sizeRulesT) :
        /\ loc' = [loc EXCEPT !.rules = rules]
        /\ pc' = "fetchConfig"
        /\ UNCHANGED response
    /\ UNCHANGED <<body, dbAtStart, concvars, admvars, rlvars, pvvars, svars, mvars, dbvars>>

\* lines 122-134: 2. Check rules exist
FetchRules ==
    /\ pc = "fetchRules"
    /\ reads' = Append(reads, "size_rules")
    /\ \E rules \in RuleListings(sizeRulesT) :
        /\ loc' = [loc EXCEPT !.rules = rules]
        /\ IF Len(rules) = 0
           THEN /\ response' = ErrorResponse(400, "no_rules",
                        <<"Size mapping rules have not been configured. Contact admin.">>)
                /\ pc' = "done"
           ELSE /\ pc' = "fetchConfig"
                /\ UNCHANGED response
    /\ UNCHANGED <<body, dbAtStart, concvars, admvars, rlvars, pvvars, svars, mvars, dbvars>>

\* lines 136-148: 3. Fetch config (use defaults if not found)
FetchConfig ==
    /\ pc = "fetchConfig"
    /\ reads' = Append(reads, "size_rules_config")
    /\ loc' = [loc EXCEPT !.effectiveConfig = EffectiveConfig(configT)]
    /\ pc' = "fetchSizes"
    /\ UNCHANGED <<body, dbAtStart, concvars, admvars, rlvars, pvvars, svars, response, mvars, dbvars>>

\* lines 150-193: 4. Fetch nail size labels, 5. apply the rules to each finger,
\* 6. build the size profile. An exception thrown by the loop reaches the
\* application's error handler, which answers 500 internal_error.
FetchSizesAndApply ==
    /\ pc = "fetchSizes"
    /\ reads' = Append(reads, "nail_sizes")
    /\ LET r == PerFingerLoop(1, << >>, loc.measurement.fingers, loc.rules,
                              loc.effectiveConfig, nailSizesT)
       IN  IF r.kind = "missing"
           THEN /\ response' = ErrorResponse(400, "validation_error",
                        <<"Measurement missing data for finger: ", r.finger>>)
                /\ pc' = "done"
                /\ loc' = [loc EXCEPT !.sizeRows = nailSizesT]
           ELSE IF r.kind = "TypeError"
           THEN /\ response' = ErrorResponse(500, "internal_error", <<"An unexpected error occurred">>)
                /\ pc' = "done"
                /\ loc' = [loc EXCEPT !.sizeRows = nailSizesT]
           ELSE /\ loc' = [loc EXCEPT !.sizeRows = nailSizesT,
                                      !.perFinger = r.perFinger,
                                      !.sizeProfile = SizeProfile(r.perFinger)]
                /\ pc' = "fetchSets"
                /\ UNCHANGED response
    /\ UNCHANGED <<body, dbAtStart, concvars, admvars, rlvars, pvvars, svars, mvars, dbvars>>

\* FetchSets storing the recommendation before the sets are ranked
FetchSets_StoresEarly ==
    /\ pc = "fetchSets"
    /\ reads' = Append(reads, "size_sets")
    /\ loc' = [loc EXCEPT !.matchingSets = matchingSets(loc.perFinger, sizeSetsT)]
    /\ recommendationsT' = Append(recommendationsT,
          [measurementId |-> body.measurement_id[1],
           chartId |-> "default",
           sizeProfile |-> loc.sizeProfile,
           sizes |-> sizesJson(loc.perFinger),
           matchingSetId |-> None])
    /\ pc' = "insert"
    /\ UNCHANGED <<body, dbAtStart, concvars, admvars, rlvars, pvvars, svars, response, mvars, measurementsT, sizeRulesT, configT, nailSizesT, sizeSetsT>>

\* lines 195-216: 7. Find matching sets
FetchSets ==
    /\ pc = "fetchSets"
    /\ reads' = Append(reads, "size_sets")
    /\ loc' = [loc EXCEPT !.matchingSets = matchingSets(loc.perFinger, sizeSetsT)]
    /\ pc' = "insert"
    /\ UNCHANGED <<body, dbAtStart, concvars, admvars, rlvars, pvvars, svars, response, mvars, dbvars>>

\* InsertAndRespond keeping one row per measurement: a row of the same
\* measurement is replaced, a new row is appended otherwise
InsertAndRespond_Upsert ==
    /\ pc = "insert"
    /\ LET row == [measurementId |-> body.measurement_id[1],
                   chartId |-> "default",
                   sizeProfile |-> loc.sizeProfile,
                   sizes |-> sizesJson(loc.perFinger),
                   matchingSetId |-> bestMatchSetId(loc.matchingSets)]
           same == {k \in 1..Len(recommendationsT) :
                        recommendationsT[k].measurementId = row.measurementId}
       IN  recommendationsT' =
              IF same = {} THEN Append(recommendationsT, row)
              ELSE [k \in 1..Len(recommendationsT) |->
                        IF k \in same THEN row ELSE recommendationsT[k]]
    /\ response' = [status |-> 200,
                    measurement_id |-> body.measurement_id[1],
                    size_profile |-> loc.sizeProfile,
                    per_finger |-> loc.perFinger,
                    matching_sets |-> PublicSets(loc.matchingSets)]
    /\ pc' = "done"
    /\ UNCHANGED <<body, dbAtStart, concvars, admvars, rlvars, pvvars, svars, loc, reads, mvars, measurementsT, sizeRulesT, configT, nailSizesT, sizeSetsT>>

\* lines 218-237: 8. Store recommendation, 9. Return
InsertAndRespond ==
    /\ pc = "insert"
    /\ recommendationsT' = Append(recommendationsT,
          [measurementId |-> body.measurement_id[1],
           chartId |-> "default",
           sizeProfile |-> loc.sizeProfile,
           sizes |-> sizesJson(loc.perFinger),
           matchingSetId |-> bestMatchSetId(loc.matchingSets)])
    /\ response' = [status |-> 200,
                    measurement_id |-> body.measurement_id[1],
                    size_profile |-> loc.sizeProfile,
                    per_finger |-> loc.perFinger,
                    matching_sets |-> PublicSets(loc.matchingSets)]
    /\ pc' = "done"
    /\ UNCHANGED <<body, dbAtStart, concvars, admvars, rlvars, pvvars, svars, loc, reads, mvars, measurementsT, sizeRulesT, configT, nailSizesT, sizeSetsT>>

\* the response is out; the next request may come
Finish ==
    /\ pc = "done"
    /\ pc' = "idle"
    /\ body' = NoRow
    /\ loc' = NoRow
    /\ reads' = << >>
    /\ response' = NoRow
    /\ dbAtStart' = << >>
    /\ UNCHANGED <<mvars, dbvars, concvars, admvars, rlvars, pvvars, svars>>

Next ==
    \/ RecvRequest
    \/ FetchMeasurement
    \/ FetchRules
    \/ FetchConfig
    \/ FetchSizesAndApply
    \/ FetchSets
    \/ InsertAndRespond
    \/ Finish

Spec == Init /\ [][Next]_vars

\* ---- several requests served at once (specification SpecConc) ----
\* The handler is an async function: at each await the server may run another
\* request up to its next await. The request variables hold the request that
\* is running; the others wait in suspended.

\* the request that is running, as it is saved when another one takes over
Running ==
    [pc |-> pc, body |-> body, loc |-> loc, reads |-> reads,
     response |-> response, dbAtStart |-> dbAtStart]

\* a slot no request has arrived in
IdleInvocation ==
    [pc |-> "idle", body |-> NoRow, loc |-> NoRow, reads |-> << >>,
     response |-> NoRow, dbAtStart |-> << >>]

\* a chart whose rules give every complete measurement a size
ConcRules == { Rule("thumb", 1000, 1100, 12, 1), Rule("all", 1150, 1300, 3, 0) }

ConcInit ==
    /\ measurementsT = StoredMeasurements
    /\ sizeRulesT = ConcRules
    /\ configT = NoRow
    /\ nailSizesT = {}
    /\ sizeSetsT \in SetTables
    /\ recommendationsT = << >>
    /\ pc = "idle"
    /\ body = NoRow
    /\ loc = NoRow
    /\ reads = << >>
    /\ response = NoRow
    /\ dbAtStart = << >>
    /\ suspended = [i \in 1..MaxSuspended |-> IdleInvocation]
    /\ RankIdle
    /\ AdminIdle
    /\ LimiterIdle
    /\ PreviewIdle
    /\ mRules = << >>
    /\ mConfig = NoRow
    /\ mFinger = "thumb"
    /\ mWidth = 0
    /\ mResult = NotCalled

\* the running request waits at its await (or has ended) and the i-th
\* suspended request continues
Switch(i) ==
    /\ suspended[i] # Running
    /\ suspended' = [suspended EXCEPT ![i] = Running]
    /\ pc' = suspended[i].pc
    /\ body' = suspended[i].body
    /\ loc' = suspended[i].loc
    /\ reads' = suspended[i].reads
    /\ response' = suspended[i].response
    /\ dbAtStart' = suspended[i].dbAtStart
    /\ UNCHANGED <<mvars, dbvars, svars, admvars, rlvars, pvvars>>

\* every slot serves one request, so that the requests that were answered
\* stay on record
ConcNext ==
    \/ RecvRequest
    \/ FetchMeasurement
    \/ FetchRules
    \/ FetchConfig
    \/ FetchSizesAndApply
    \/ FetchSets
    \/ InsertAndRespond
    \/ \E i \in 1..Len(suspended) : Switch(i)

SpecConc == ConcInit /\ [][ConcNext]_vars

\* ---- the set ranking on its own (specification SpecSets) ----

\* a per-finger result with the given sizes
Sizes(t, i, m, r, p) ==
    LET entry(n) == [size |-> n, size_label |-> DecimalString(n), fit |-> "perfect"]
    IN  [thumb |-> entry(t), index |-> entry(i), middle |-> entry(m),
         ring |-> entry(r), pinky |-> entry(p)]

RankSizes == { Sizes(3, 3, 3, 3, 3), Sizes(3, 5, 4, 6, 8), Sizes(9, 9, 9, 3, 3) }

\* rows of size_sets: from the first one, Small, the others differ in
\* 5, 1, 1, 2, 3 and 3 positions
RankSets ==
    { SizeSet(1, "Small",   3, 3, 3, 3, 3), SizeSet(2, "Classic", 3, 5, 4, 6, 8),
      SizeSet(3, "Wide",    9, 3, 3, 3, 3), SizeSet(4, "Narrow",  3, 3, 3, 3, 9),
      SizeSet(5, "Mixed",   9, 9, 3, 3, 3), SizeSet(6, "Large",   9, 9, 9, 3, 3),
      SizeSet(7, "Odd",     3, 5, 9, 9, 9) }

\* the listings of up to MaxSets distinct rows, in every order
SetLists ==
    UNION { {l \in [1..n -> RankSets] : \A a, b \in 1..n : a # b => l[a].id # l[b].id}
            : n \in 0..MaxSets }

RankInit ==
    /\ sSizes \in RankSizes
    /\ sSets \in SetLists
    /\ sResult = NotCalled
    /\ mRules = << >>
    /\ mConfig = NoRow
    /\ mFinger = "thumb"
    /\ mWidth = 0
    /\ mResult = NotCalled
    /\ measurementsT = << >>
    /\ sizeRulesT = {}
    /\ configT = NoRow
    /\ nailSizesT = {}
    /\ sizeSetsT = << >>
    /\ recommendationsT = << >>
    /\ ReqIdle
    /\ AdminIdle
    /\ LimiterIdle
    /\ PreviewIdle

\* lines 201-216 applied to perFinger and sets, and the matching_sets of the
\* response (line 236)
RankCall ==
    /\ sResult = NotCalled
    /\ sResult' = [kind |-> "ok",
                   matchingSets |-> matchingSets(sSizes, sSets),
                   bestMatchSetId |-> bestMatchSetId(matchingSets(sSizes, sSets)),
                   matching_sets |-> PublicSets(matchingSets(sSizes, sSets))]
    /\ UNCHANGED <<sSizes, sSets, mvars, dbvars, reqvars, concvars, admvars, rlvars, pvvars>>

RankNext == RankCall

SpecSets == RankInit /\ [][RankNext]_vars

\* the tables of the chart before anything is stored
EmptyTables ==
    /\ measurementsT = << >>
    /\ sizeRulesT = {}
    /\ configT = NoRow
    /\ nailSizesT = {}
    /\ sizeSetsT = << >>
    /\ recommendationsT = << >>

\* no recommend request and no call of the matcher or the set ranking
PipelineIdle ==
    /\ ReqIdle
    /\ RankIdle
    /\ mRules = << >>
    /\ mConfig = NoRow
    /\ mFinger = "thumb"
    /\ mWidth = 0
    /\ mResult = NotCalled

\* ---- the admin router (specification SpecAdmin) ----
\* api/src/routes/admin.ts and api/src/middleware/auth.ts. A request to the
\* protected router first meets requireAdmin; when that calls next() the
\* route's handler reads the body and performs its one repository statement.

\* a row of size_rules with its serial id
RuleRow(id, f, lo, hi, size, prio) ==
    [id |-> id, finger |-> f, minWidthMm |-> lo, maxWidthMm |-> hi,
     mappedSize |-> size, priority |-> prio]

\* a JSON web token: the secret it was signed with, the type in its payload,
\* whether its exp has passed
Token(key, type, expired) == [wellFormed |-> TRUE, key |-> key, type |-> type, expired |-> expired]

\* the Authorization headers of the requests: none, another scheme, a Bearer
\* token that is not a JWT, and tokens signed with the server's JWT_SECRET
\* (valid, expired, of another type), with the refresh secret and with a
\* secret the server does not know
AuthHeaders ==
    { None,
      Some([scheme |-> "Basic", token |-> [wellFormed |-> FALSE]]),
      Some([scheme |-> "Bearer", token |-> [wellFormed |-> FALSE]]),
      Some([scheme |-> "Bearer", token |-> Token("access-secret", "admin", FALSE)]),
      Some([scheme |-> "Bearer", token |-> Token("access-secret", "admin", TRUE)]),
      Some([scheme |-> "Bearer", token |-> Token("access-secret", "customer", FALSE)]),
      Some([scheme |-> "Bearer", token |-> Token("refresh-secret", "admin", FALSE)]),
      Some([scheme |-> "Bearer", token |-> Token("forged", "admin", FALSE)]) }

\* jwt.verify(token, secret): "ok", or the error it throws
JwtVerify(token, secret) ==
    IF ~token.wellFormed \/ token.key # secret THEN "JsonWebTokenError"
    ELSE IF token.expired THEN "TokenExpiredError"
    ELSE "ok"

\* the middleware letting the request through
CallNext == [next |-> TRUE]

\* requireAdmin accepting a verified token of any type
requireAdmin_AnyType(auth) ==
    IF auth = None \/ auth[1].scheme # "Bearer"
    THEN ErrorResponse(401, "unauthorized", <<"Missing or invalid Authorization header">>)
    ELSE IF jwtSecret = None
    THEN ErrorResponse(500, "internal_error", <<"Server misconfiguration">>)
    ELSE LET v == JwtVerify(auth[1].token, jwtSecret[1])
         IN  IF v = "TokenExpiredError"
             THEN ErrorResponse(401, "unauthorized", <<"Token expired">>)
             ELSE IF v # "ok"
             THEN ErrorResponse(401, "unauthorized", <<"Invalid token">>)
             ELSE CallNext

\* requireAdmin() on the Authorization header: CallNext, or the response it
\* sends instead
requireAdmin(auth) ==
    IF auth = None \/ auth[1].scheme # "Bearer"
    THEN ErrorResponse(401, "unauthorized", <<"Missing or invalid Authorization header">>)
    ELSE IF jwtSecret = None
    THEN ErrorResponse(500, "internal_error", <<"Server misconfiguration">>)
    ELSE LET v == JwtVerify(auth[1].token, jwtSecret[1])
         IN  IF v = "TokenExpiredError"
             THEN ErrorResponse(401, "unauthorized", <<"Token expired">>)
             ELSE IF v # "ok"
             THEN ErrorResponse(401, "unauthorized", <<"Invalid token">>)
             ELSE IF auth[1].token.type # "admin"
             THEN ErrorResponse(401, "unauthorized", <<"Invalid token type">>)
             ELSE CallNext

\* the routes of the protected router that write rules and their config
AdminRoutes == {"POST /rules", "PUT /rules/config", "PUT /rules/:id", "DELETE /rules/:id"}

\* a request body: not JSON, or a JSON object with the given fields
NotJson == [json |-> FALSE]
Json(fields) == [json |-> TRUE, fields |-> fields]

PostRuleBodies ==
    { NotJson,
      Json([min_width_mm |-> 1000, max_width_mm |-> 1100]),
      Json([min_width_mm |-> 1000, max_width_mm |-> 1100, mapped_size |-> 5]),
      Json([min_width_mm |-> 1100, max_width_mm |-> 1100, mapped_size |-> 5]),
      Json([min_width_mm |-> 1200, max_width_mm |-> 1100, mapped_size |-> 5]),
      Json([min_width_mm |-> 1000, max_width_mm |-> 1100, mapped_size |-> 5, finger |-> "toe"]),
      Json([min_width_mm |-> 1150, max_width_mm |-> 1300, mapped_size |-> 3,
            finger |-> "thumb", priority |-> 1]) }

PutRuleBodies ==
    { NotJson,
      Json([max_width_mm |-> 900]),
      Json([min_width_mm |-> 1100, max_width_mm |-> 1200]),
      Json([mapped_size |-> 7, priority |-> 2]) }

PutConfigBodies ==
    { NotJson,
      Json([between_sizes |-> "invalid"]),
      Json([between_sizes |-> "invalid", tolerance_mm |-> 50]),
      Json([between_sizes |-> "size_up"]),
      Json([tolerance_mm |-> 50]),
      Json([tolerance_mm |-> 0 - 10]),
      Json([between_sizes |-> "size_down", tolerance_mm |-> 0]) }

validFingers == {"all", "thumb", "index", "middle", "ring", "pinky"}

\* a field of a body, or the default when the body does not have it
FieldOr(fields, name, default) == IF name \in DOMAIN fields THEN fields[name] ELSE default

\* the history of the tables kept while a recommend request runs
Snapshot(rules, config) ==
    IF pc \in {"idle", "done"} THEN snapshots
    ELSE snapshots \cup {<<rules, config, nailSizesT, sizeSetsT>>}

\* a request for the route with the Authorization header arrives at the
\* protected router and requireAdmin answers it or hands it to the route
RequireAdminFor(route, auth) ==
    /\ adminRes # CallNext
    /\ adminReq' = [route |-> route, auth |-> auth]
    /\ adminRes' = requireAdmin(auth)
    /\ UNCHANGED <<adminsT, jwtSecret, ruleSerial, snapshots,
                   mvars, dbvars, reqvars, concvars, svars, rlvars, pvvars>>

RequireAdmin == \E route \in AdminRoutes, auth \in AuthHeaders : RequireAdminFor(route, auth)

\* lines 267-304: POST /v1/admin/rules
PostRule ==
    /\ adminRes = CallNext
    /\ adminReq.route = "POST /rules"
    /\ ruleSerial < MaxRuleSerial
    /\ \E b \in PostRuleBodies :
          /\ adminReq' = [adminReq EXCEPT !.route = @] @@ [body |-> b]
          /\ IF ~b.json
             THEN /\ adminRes' = ErrorResponse(400, "validation_error", <<"Request body must be JSON">>)
                  /\ UNCHANGED <<sizeRulesT, ruleSerial, snapshots>>
             ELSE IF {"min_width_mm", "max_width_mm", "mapped_size"} \ DOMAIN b.fields # {}
             THEN /\ adminRes' = ErrorResponse(400, "validation_error",
                          <<"min_width_mm, max_width_mm, and mapped_size are required">>)
                  /\ UNCHANGED <<sizeRulesT, ruleSerial, snapshots>>
             ELSE IF b.fields.min_width_mm >= b.fields.max_width_mm
             THEN /\ adminRes' = ErrorResponse(400, "validation_error",
                          <<"min_width_mm must be less than max_width_mm">>)
                  /\ UNCHANGED <<sizeRulesT, ruleSerial, snapshots>>
             ELSE IF "finger" \in DOMAIN b.fields /\ b.fields.finger \notin validFingers
             THEN /\ adminRes' = ErrorResponse(400, "validation_error", <<"finger must be one of: ...">>)
                  /\ UNCHANGED <<sizeRulesT, ruleSerial, snapshots>>
             ELSE LET row == RuleRow(ruleSerial + 1, FieldOr(b.fields, "finger", "all"),
                                     b.fields.min_width_mm, b.fields.max_width_mm,
                                     b.fields.mapped_size, FieldOr(b.fields, "priority", 0))
                  IN  /\ sizeRulesT' = sizeRulesT \cup {row}
                      /\ ruleSerial' = ruleSerial + 1
                      /\ snapshots' = Snapshot(sizeRulesT \cup {row}, configT)
                      /\ adminRes' = [status |-> 201, row |-> row]
    /\ UNCHANGED <<adminsT, jwtSecret, measurementsT, configT, nailSizesT, sizeSetsT,
                   recommendationsT, mvars, reqvars, concvars, svars, rlvars, pvvars>>

\* the config row after the upsert of lines 323-327: the given fields go into
\* the row, a new row takes the column defaults of the schema for the others
UpsertConfig(row, fields) ==
    LET old == IF row = NoRow
               THEN [betweenSizes |-> "size_down", toleranceMm |-> DefaultToleranceMm]
               ELSE row
    IN  [betweenSizes |-> FieldOr(fields, "between_sizes", old.betweenSizes),
         toleranceMm |-> FieldOr(fields, "tolerance_mm", old.toleranceMm)]

\* lines 306-330: PUT /v1/admin/rules/config with the body b
PutRuleConfigOf(b) ==
    /\ adminRes = CallNext
    /\ adminReq.route = "PUT /rules/config"
    /\ adminReq' = [adminReq EXCEPT !.route = @] @@ [body |-> b]
    /\ IF ~b.json
       THEN /\ adminRes' = ErrorResponse(400, "validation_error", <<"Request body must be JSON">>)
            /\ UNCHANGED <<configT, snapshots>>
       ELSE IF /\ "between_sizes" \in DOMAIN b.fields
               /\ b.fields.between_sizes \notin {"size_up", "size_down"}
       THEN /\ adminRes' = ErrorResponse(400, "validation_error",
                    <<"between_sizes must be \"size_up\" or \"size_down\"">>)
            /\ UNCHANGED <<configT, snapshots>>
       ELSE LET row == UpsertConfig(configT, b.fields)
            IN  /\ configT' = row
                /\ snapshots' = Snapshot(sizeRulesT, row)
                /\ adminRes' = [status |-> 200, between_sizes |-> row.betweenSizes,
                                tolerance_mm |-> row.toleranceMm]
    /\ UNCHANGED <<adminsT, jwtSecret, ruleSerial, measurementsT, sizeRulesT, nailSizesT,
                   sizeSetsT, recommendationsT, mvars, reqvars, concvars, svars, rlvars, pvvars>>

PutRuleConfig == \E b \in PutConfigBodies : PutRuleConfigOf(b)

\* the row after the update of line 349: the given fields replace the columns
UpdateRule(row, fields) ==
    [id |-> row.id,
     finger |-> FieldOr(fields, "finger", row.finger),
     minWidthMm |-> FieldOr(fields, "min_width_mm", row.minWidthMm),
     maxWidthMm |-> FieldOr(fields, "max_width_mm", row.maxWidthMm),
     mappedSize |-> FieldOr(fields, "mapped_size", row.mappedSize),
     priority |-> FieldOr(fields, "priority", row.priority)]

\* lines 332-352: PUT /v1/admin/rules/:id with the id and the body b
PutRuleOf(id, b) ==
    /\ adminRes = CallNext
    /\ adminReq.route = "PUT /rules/:id"
    /\ adminReq' = [adminReq EXCEPT !.route = @] @@ [id |-> id, body |-> b]
    /\ IF ~b.json
       THEN /\ adminRes' = ErrorResponse(400, "validation_error", <<"Request body must be JSON">>)
            /\ UNCHANGED <<sizeRulesT, snapshots>>
       ELSE IF \A r \in sizeRulesT : r.id # id
       THEN /\ adminRes' = ErrorResponse(404, "not_found", <<"Rule not found">>)
            /\ UNCHANGED <<sizeRulesT, snapshots>>
       ELSE LET rules == {IF r.id = id THEN UpdateRule(r, b.fields) ELSE r : r \in sizeRulesT}
            IN  /\ sizeRulesT' = rules
                /\ snapshots' = Snapshot(rules, configT)
                /\ adminRes' = [status |-> 200,
                                row |-> CHOOSE r \in rules : r.id = id]
    /\ UNCHANGED <<adminsT, jwtSecret, ruleSerial, measurementsT, configT, nailSizesT,
                   sizeSetsT, recommendationsT, mvars, reqvars, concvars, svars, rlvars, pvvars>>

PutRule == \E id \in 1..MaxRuleSerial, b \in PutRuleBodies : PutRuleOf(id, b)

\* lines 354-360: DELETE /v1/admin/rules/:id
DeleteRule ==
    /\ adminRes = CallNext
    /\ adminReq.route = "DELETE /rules/:id"
    /\ \E id \in 1..MaxRuleSerial :
          /\ adminReq' = [adminReq EXCEPT !.route = @] @@ [id |-> id]
          /\ IF \A r \in sizeRulesT : r.id # id
             THEN /\ adminRes' = ErrorResponse(404, "not_found", <<"Rule not found">>)
                  /\ UNCHANGED <<sizeRulesT, snapshots>>
             ELSE LET rules == {r \in sizeRulesT : r.id # id}
                  IN  /\ sizeRulesT' = rules
                      /\ snapshots' = Snapshot(rules, configT)
                      /\ adminRes' = [status |-> 200, deleted |-> TRUE]
    /\ UNCHANGED <<adminsT, jwtSecret, ruleSerial, measurementsT, configT, nailSizesT,
                   sizeSetsT, recommendationsT, mvars, reqvars, concvars, svars, rlvars, pvvars>>

\* an empty chart, and a server with and without JWT_SECRET
AdminInit ==
    /\ EmptyTables
    /\ PipelineIdle
    /\ LimiterIdle
    /\ PreviewIdle
    /\ adminsT = {}
    /\ jwtSecret \in {None, Some("access-secret")}
    /\ ruleSerial = 0
    /\ adminReq = NoRow
    /\ adminRes = NoRow
    /\ snapshots = {}

AdminNext ==
    \/ RequireAdmin
    \/ PostRule
    \/ PutRuleConfig
    \/ PutRule
    \/ DeleteRule

SpecAdmin == AdminInit /\ [][AdminNext]_vars

\* ---- the rate limiter (specification SpecLimit) ----
\* unnamed/part_000 (createRateLimiter) as mounted in unnamed/part_002. Time
\* is counted in ticks; the limits and the window are scaled down and the
\* properties are stated in terms of their names.

\* a request as the limiter sees it: the client address getClientIp derives
\* and the path
ClientRequest(ip, path) == [ip |-> ip, path |-> path]

LimitedRequests ==
    { ClientRequest("198.51.100.7", <<"", "v1", "recommend">>),
      ClientRequest("198.51.100.7", <<"", "v1", "admin", "rules">>) }

\* line 37: the bucket of a request, c.req.path.split('/')[2]
KeyOf(req) == <<req.ip, IF Len(req.path) >= 3 THEN req.path[3] ELSE "root">>

Keys == {KeyOf(req) : req \in LimitedRequests}

\* part_002 lines 36-42: the maxRequests of the limiter mounted on the path
MaxRequestsOf(req) == IF req.path[3] = "admin" THEN AdminMax ELSE PublicMax

\* a window entry of the store
Entry(count, resetAt) == [count |-> count, resetAt |-> resetAt]

\* the limiter starting the window again when it rejects a request
limit_ExtendsOnReject(entry, maxRequests) ==
    IF entry = NoRow \/ now > entry.resetAt
    THEN [entry |-> Entry(1, now + WindowMs), next |-> TRUE,
          response |-> [limit |-> maxRequests, remaining |-> maxRequests - 1]]
    ELSE IF entry.count >= maxRequests
    THEN [entry |-> Entry(entry.count, now + WindowMs), next |-> FALSE,
          response |-> [status |-> 429, error |-> "rate_limited",
                        retry_after |-> entry.resetAt - now]]
    ELSE [entry |-> Entry(entry.count + 1, entry.resetAt), next |-> TRUE,
          response |-> [limit |-> maxRequests, remaining |-> maxRequests - (entry.count + 1)]]

\* the limiter counting a request of a full window as well
limit_CountsRejected(entry, maxRequests) ==
    IF entry = NoRow \/ now > entry.resetAt
    THEN [entry |-> Entry(1, now + WindowMs), next |-> TRUE,
          response |-> [limit |-> maxRequests, remaining |-> maxRequests - 1]]
    ELSE IF entry.count >= maxRequests
    THEN [entry |-> Entry(entry.count + 1, entry.resetAt), next |-> FALSE,
          response |-> [status |-> 429, error |-> "rate_limited",
                        retry_after |-> entry.resetAt - now]]
    ELSE [entry |-> Entry(entry.count + 1, entry.resetAt), next |-> TRUE,
          response |-> [limit |-> maxRequests, remaining |-> maxRequests - (entry.count + 1)]]

\* lines 39-63: the limiter on the entry of the request's key at the time
\* now: the entry it leaves, whether it calls next(), and the headers or the
\* response it sets
limit(entry, maxRequests) ==
    IF entry = NoRow \/ now > entry.resetAt
    THEN [entry |-> Entry(1, now + WindowMs), next |-> TRUE,
          response |-> [limit |-> maxRequests, remaining |-> maxRequests - 1]]
    ELSE IF entry.count >= maxRequests
    THEN [entry |-> entry, next |-> FALSE,
          response |-> [status |-> 429, error |-> "rate_limited",
                        retry_after |-> entry.resetAt - now]]
    ELSE [entry |-> Entry(entry.count + 1, entry.resetAt), next |-> TRUE,
          response |-> [limit |-> maxRequests, remaining |-> maxRequests - (entry.count + 1)]]

\* a request meets the limiter of its path; passed records, per key and tick,
\* how many requests went on to next()
LimitRequest ==
    /\ \E req \in LimitedRequests :
          LET key == KeyOf(req)
              out == limit(store[key], MaxRequestsOf(req))
          IN  /\ rlReq' = [ip |-> req.ip, path |-> req.path, key |-> key]
              /\ rlRes' = [next |-> out.next] @@ out.response
              /\ store' = [store EXCEPT ![key] = out.entry]
              /\ passed' = IF out.next
                           THEN [passed EXCEPT ![key][now] = @ + 1]
                           ELSE passed
    /\ UNCHANGED <<now, mvars, dbvars, reqvars, concvars, svars, admvars, pvvars>>

\* lines 11-17: the periodic eviction deletes the entries whose window is over
Evict ==
    /\ \E k \in Keys : store[k] # NoRow /\ now > store[k].resetAt
    /\ store' = [k \in Keys |-> IF store[k] # NoRow /\ now > store[k].resetAt
                                THEN NoRow ELSE store[k]]
    /\ UNCHANGED <<now, rlReq, rlRes, passed,
                   mvars, dbvars, reqvars, concvars, svars, admvars, pvvars>>

\* the wall clock moves on; passed keeps the ticks that a window ending at
\* the new time or later can cover
Tick ==
    /\ now < MaxClock
    /\ now' = now + 1
    /\ passed' = [k \in Keys |->
                    [t \in 0..MaxClock |-> IF t < now + 1 - WindowMs THEN 0 ELSE passed[k][t]]]
    /\ UNCHANGED <<store, rlReq, rlRes,
                   mvars, dbvars, reqvars, concvars, svars, admvars, pvvars>>

\* the limiter of a server that just started: an empty store at tick 0
LimiterStart ==
    /\ store = [k \in Keys |-> NoRow]
    /\ now = 0
    /\ rlReq = NoRow
    /\ rlRes = NoRow
    /\ passed = [k \in Keys |-> [t \in 0..MaxClock |-> 0]]

LimitInit ==
    /\ EmptyTables
    /\ PipelineIdle
    /\ AdminIdle
    /\ PreviewIdle
    /\ LimiterStart

LimitNext ==
    \/ LimitRequest
    \/ Tick
    \/ Evict

SpecLimit == LimitInit /\ [][LimitNext]_vars

\* ---- the login route (specification SpecLogin) ----
\* api/src/routes/admin.ts, auth.post('/login'): outside the protected router.

\* what bcrypt stores for a password, and bcrypt.compare
BcryptHash(password) == <<"bcrypt", password>>

BcryptCompare(password, hash) == hash = BcryptHash(password)

\* a row of admins
AdminRow(id, email, password, lastLoginAt) ==
    [id |-> id, email |-> email, passwordHash |-> BcryptHash(password), lastLoginAt |-> lastLoginAt]

StoredAdmins ==
    { AdminRow(1, "ada@example.com", "ada-pw", None),
      AdminRow(2, "bob@example.com", "bob-pw", None) }

\* the login bodies: not JSON, and combinations of a missing, empty, stored
\* or unknown email with a missing, empty, right or wrong password
LoginBodies ==
    {NotJson} \cup
    { Json([email |-> e, password |-> pw]) :
        e \in {"", "ada@example.com", "bob@example.com", "eve@example.com"},
        pw \in {"", "ada-pw", "bob-pw", "guess"} } \cup
    { Json([email |-> e]) : e \in {"ada@example.com", "eve@example.com"} } \cup
    { Json([password |-> pw]) : pw \in {"ada-pw"} }

\* the admins whose email is the given one (email is unique)
AdminsByEmail(email) == {a \in adminsT : a.email = email}

\* login answering an unknown email with a message of its own
login_UnknownEmail(b) ==
    IF ~b.json
    THEN [response |-> ErrorResponse(400, "validation_error", <<"Request body must be JSON">>),
          admins |-> adminsT]
    ELSE IF FieldOr(b.fields, "email", "") = "" \/ FieldOr(b.fields, "password", "") = ""
    THEN [response |-> ErrorResponse(400, "validation_error", <<"email and password are required">>),
          admins |-> adminsT]
    ELSE IF AdminsByEmail(b.fields.email) = {}
    THEN [response |-> ErrorResponse(401, "unauthorized", <<"Unknown email">>),
          admins |-> adminsT]
    ELSE LET admin_ == CHOOSE a \in AdminsByEmail(b.fields.email) : TRUE
             updated == (adminsT \ {admin_}) \cup {[admin_ EXCEPT !.lastLoginAt = Some(now)]}
         IN  IF ~BcryptCompare(b.fields.password, admin_.passwordHash)
             THEN [response |-> ErrorResponse(401, "unauthorized", <<"Invalid credentials">>),
                   admins |-> adminsT]
             ELSE IF jwtSecret = None
             THEN [response |-> ErrorResponse(500, "internal_error", <<"Internal server error">>),
                   admins |-> updated]
             ELSE [response |->
                       [status |-> 200,
                        access_token |-> [token |-> Token(jwtSecret[1], "admin", FALSE),
                                          id |-> admin_.id, email |-> admin_.email],
                        refresh_token |-> [token |-> Token("refresh-secret", "admin", FALSE),
                                           id |-> admin_.id, email |-> admin_.email],
                        expires_in |-> 86400],
                   admins |-> updated]

\* lines 29-59: the response of POST /v1/admin/auth/login to a body, and the
\* admins table it leaves. Without JWT_SECRET signAccessToken throws after
\* the update of lastLoginAt and the application's onError answers 500.
login(b) ==
    IF ~b.json
    THEN [response |-> ErrorResponse(400, "validation_error", <<"Request body must be JSON">>),
          admins |-> adminsT]
    ELSE IF FieldOr(b.fields, "email", "") = "" \/ FieldOr(b.fields, "password", "") = ""
    THEN [response |-> ErrorResponse(400, "validation_error", <<"email and password are required">>),
          admins |-> adminsT]
    ELSE IF AdminsByEmail(b.fields.email) = {}
    THEN [response |-> ErrorResponse(401, "unauthorized", <<"Invalid credentials">>),
          admins |-> adminsT]
    ELSE LET admin_ == CHOOSE a \in AdminsByEmail(b.fields.email) : TRUE
             updated == (adminsT \ {admin_}) \cup {[admin_ EXCEPT !.lastLoginAt = Some(now)]}
         IN  IF ~BcryptCompare(b.fields.password, admin_.passwordHash)
             THEN [response |-> ErrorResponse(401, "unauthorized", <<"Invalid credentials">>),
                   admins |-> adminsT]
             ELSE IF jwtSecret = None
             THEN [response |-> ErrorResponse(500, "internal_error", <<"Internal server error">>),
                   admins |-> updated]
             ELSE [response |->
                       [status |-> 200,
                        access_token |-> [token |-> Token(jwtSecret[1], "admin", FALSE),
                                          id |-> admin_.id, email |-> admin_.email],
                        refresh_token |-> [token |-> Token("refresh-secret", "admin", FALSE),
                                           id |-> admin_.id, email |-> admin_.email],
                        expires_in |-> 86400],
                   admins |-> updated]

\* one request to POST /v1/admin/auth/login
Login ==
    /\ \E b \in LoginBodies :
          /\ adminReq' = [route |-> "POST /auth/login", body |-> b]
          /\ adminRes' = login(b).response
          /\ adminsT' = login(b).admins
    /\ UNCHANGED <<jwtSecret, ruleSerial, snapshots,
                   mvars, dbvars, reqvars, concvars, svars, rlvars, pvvars>>

\* two stored admins that never logged in, a server with and without JWT_SECRET
LoginInit ==
    /\ EmptyTables
    /\ PipelineIdle
    /\ LimiterStart
    /\ PreviewIdle
    /\ adminsT = StoredAdmins
    /\ jwtSecret \in {None, Some("access-secret")}
    /\ ruleSerial = 0
    /\ adminReq = NoRow
    /\ adminRes = NoRow
    /\ snapshots = {}

LoginNext ==
    \/ Login
    \/ Tick

SpecLogin == LoginInit /\ [][LoginNext]_vars

\* ---- the two rule previews (specification SpecPreview) ----
\* api/src/routes/admin.ts, protect.post('/rules/preview'), and the admin
\* dashboard's preview route unnamed/part_008, each for one finger next to
\* the live matcher on the same rules.

\* the comparator of the preview's relevant.sort without the tie-break
ComparePreview_NoTieBreak(a, b, fingerName) ==
    IF b.priority # a.priority THEN b.priority - a.priority ELSE 0

\* lines 401-405: the comparator of the preview's relevant.sort; it has no
\* branch for a = 'all' against b = finger and answers 0 there
ComparePreview(a, b, fingerName) ==
    IF b.priority # a.priority THEN b.priority - a.priority
    ELSE IF a.finger = fingerName /\ b.finger = "all" THEN -1
    ELSE 0

\* the sort of the engine, which asks the comparator whether the later
\* element goes before an earlier one and acts on a negative answer only
RECURSIVE InsertPreview(_, _, _)
InsertPreview(x, s, fingerName) ==
    IF s = << >> THEN <<x>>
    ELSE IF ComparePreview(x, Head(s), fingerName) < 0 THEN <<x>> \o s
    ELSE <<Head(s)>> \o InsertPreview(x, Tail(s), fingerName)

RECURSIVE SortPreview(_, _)
SortPreview(s, fingerName) ==
    IF s = << >> THEN << >>
    ELSE InsertPreview(s[Len(s)], SortPreview(SubSeq(s, 1, Len(s) - 1), fingerName), fingerName)

\* lines 398-414: the size the API preview gives a finger: that of the first
\* sorted relevant rule that contains the width, else that of the first
\* sorted relevant rule, else 5
previewFinger(widthMm, finger, rules) ==
    LET relevant == SortPreview(Relevant(rules, finger), finger)
        hit == ExactScan(relevant, widthMm, 1)
    IN  [size |-> IF hit # 0 THEN relevant[hit].mappedSize
                  ELSE IF relevant # << >> THEN relevant[1].mappedSize
                  ELSE 5]

\* part_008 lines 30-35 with the maximum inclusive as well
DashboardMatches_Inclusive(r, finger, widthMm) ==
    /\ r.finger = finger \/ r.finger = "all"
    /\ widthMm >= r.minWidthMm
    /\ widthMm <= r.maxWidthMm

\* part_008 lines 30-35: the predicate of rules.find
DashboardMatches(r, finger, widthMm) ==
    /\ r.finger = finger \/ r.finger = "all"
    /\ widthMm >= r.minWidthMm
    /\ widthMm < r.maxWidthMm

\* rules.find: the index of the first row of the listing that matches, 0 if none
RECURSIVE FindRule(_, _, _, _)
FindRule(listing, finger, widthMm, i) ==
    IF i > Len(listing) THEN 0
    ELSE IF DashboardMatches(listing[i], finger, widthMm) THEN i
    ELSE FindRule(listing, finger, widthMm, i + 1)

\* part_008 lines 28-42: the dashboard's result for one measurement
dashboardPreview(listing, finger, widthMm) ==
    LET match == FindRule(listing, finger, widthMm, 1)
    IN  [finger |-> finger, width_mm |-> widthMm,
         mapped_size |-> IF match # 0 THEN Some(listing[match].mappedSize) ELSE None,
         rule_id |-> IF match # 0 THEN Some(listing[match].id) ELSE None]

\* rules that share a range, that meet at 11.00, of both priorities, specific
\* and for all fingers
PreviewRules ==
    { Rule("all",   1000, 1100, 9, 0), Rule("thumb", 1000, 1100, 5, 0),
      Rule("all",   1100, 1200, 7, 0), Rule("all",   1000, 1100, 8, 1),
      Rule("index", 1050, 1150, 2, 1) }

PreviewRuleLists == UNION {[1..n -> PreviewRules] : n \in 0..MaxRules}

PreviewWidths == {970, 1000, 1075, 1100, 1150, 1200}

\* the rows of the dashboard's size_rules: the rules with a rowid each
DashboardTable == {RuleRow(i, mRules[i].finger, mRules[i].minWidthMm, mRules[i].maxWidthMm,
                           mRules[i].mappedSize, mRules[i].priority) : i \in DOMAIN mRules}

PreviewInit ==
    /\ mRules \in PreviewRuleLists
    /\ mConfig \in {Config("size_down", 30), Config("size_up", 0)}
    /\ mFinger \in MatchFingers
    /\ mWidth \in PreviewWidths
    /\ mResult = NotCalled
    /\ EmptyTables
    /\ ReqIdle
    /\ RankIdle
    /\ AdminIdle
    /\ LimiterIdle
    /\ PreviewIdle

\* the API preview for the finger
RulesPreview ==
    /\ pResult = NotCalled
    /\ pResult' = previewFinger(mWidth, mFinger, mRules)
    /\ UNCHANGED <<dResult, mvars, dbvars, reqvars, concvars, svars, admvars, rlvars>>

\* the dashboard preview for the finger, on a listing of its table by
\* descending priority
DashboardPreview ==
    /\ dResult = NotCalled
    /\ \E listing \in RuleListings(DashboardTable) :
          dResult' = [listing |-> listing] @@ dashboardPreview(listing, mFinger, mWidth)
    /\ UNCHANGED <<pResult, mvars, dbvars, reqvars, concvars, svars, admvars, rlvars>>

PreviewNext ==
    \/ MatchCall
    \/ RulesPreview
    \/ DashboardPreview

SpecPreview == PreviewInit /\ [][PreviewNext]_vars

\* ---- admin edits during a recommend request (specification SpecEdit) ----
\* One POST /v1/recommend runs through its reads while requests to the
\* protected router change the rules and the config; snapshots collects the
\* states the tables pass through while the request is in flight.

\* two rules for all fingers with a gap between their ranges
EditRules ==
    { RuleRow(1, "all", 1000, 1100, 9, 0), RuleRow(2, "all", 1150, 1300, 3, 0) }

EditInit ==
    /\ measurementsT = StoredMeasurements
    /\ sizeRulesT = EditRules
    /\ configT = NoRow
    /\ nailSizesT = {}
    /\ sizeSetsT = << >>
    /\ recommendationsT = << >>
    /\ PipelineIdle
    /\ LimiterIdle
    /\ PreviewIdle
    /\ adminsT = {}
    /\ jwtSecret = Some("access-secret")
    /\ ruleSerial = Cardinality(EditRules)
    /\ adminReq = NoRow
    /\ adminRes = NoRow
    /\ snapshots = {}

\* an admin with a valid token sends an edit while the request is in flight
EditArrives ==
    /\ pc \notin {"idle", "done"}
    /\ Cardinality(snapshots) < MaxEdits
    /\ \E route \in {"PUT /rules/config", "PUT /rules/:id"} :
          RequireAdminFor(route, Some([scheme |-> "Bearer",
                                       token |-> Token("access-secret", "admin", FALSE)]))

\* the edit changes the first rule
EditRule ==
    \E b \in {Json([max_width_mm |-> 900]), Json([mapped_size |-> 7, priority |-> 2])} :
        PutRuleOf(1, b)

\* the edit changes the config
EditConfig ==
    \E b \in {Json([between_sizes |-> "size_up"]),
              Json([between_sizes |-> "size_down", tolerance_mm |-> 0])} :
        PutRuleConfigOf(b)

EditNext ==
    \/ RecvRequest
    \/ FetchMeasurement
    \/ FetchRules
    \/ FetchConfig
    \/ FetchSizesAndApply
    \/ FetchSets
    \/ InsertAndRespond
    \/ EditArrives
    \/ EditRule
    \/ EditConfig

SpecEdit == EditInit /\ [][EditNext]_vars

\* ------------------------------------------ properties of the pipeline

Responded == response # NoRow

\* the error code of a response, "none" for a 200
ErrorOf(r) == IF "error" \in DOMAIN r THEN r.error ELSE "none"

WellFormed(b) == b # NoRow /\ b.json /\ b.measurement_id # None /\ b.measurement_id # Some("")

\* C3 (no unhandled exception): every request ends in a 200 result or in
\* one of the coded errors validation_error, not_found, no_rules; when the
\* chart has rules but none applies to one of the fingers, the failure is a
\* configuration error and not a crash.
C3_NeverUnhandled ==
    Responded =>
        \/ response.status = 200
        \/ ErrorOf(response) \in {"validation_error", "not_found", "no_rules"}

\* C4 as claimed (no_rules before the measurement is fetched): with no rules
\* registered, every well-formed request ends in no_rules, and the
\* measurements table is not read before size_rules.
C4_NoRulesBeforeMeasurement ==
    (Responded /\ WellFormed(body) /\ sizeRulesT = {}) =>
        /\ ErrorOf(response) = "no_rules"
        /\ \A i \in 1..Len(reads) :
              reads[i] = "measurements" => \E j \in 1..(i - 1) : reads[j] = "size_rules"

\* C4 as amended: with no rules registered, a well-formed request ends in
\* no_rules when its measurement exists and in not_found when it does not;
\* the measurement is looked up first and the rules are read only after it
\* was found.
C4_NoRulesAfterMeasurement ==
    (Responded /\ WellFormed(body) /\ sizeRulesT = {}) =>
        IF body.measurement_id[1] \in DOMAIN measurementsT
        THEN /\ ErrorOf(response) = "no_rules"
             /\ response.status = 400
             /\ reads = <<"measurements", "size_rules">>
        ELSE /\ ErrorOf(response) = "not_found"
             /\ response.status = 404
             /\ reads = <<"measurements">>

\* a request for an unknown measurement answered not_found while no rules are
\* registered
C4_Witness ==
    /\ Responded
    /\ WellFormed(body)
    /\ sizeRulesT = {}
    /\ body.measurement_id[1] \notin DOMAIN measurementsT
    /\ ErrorOf(response) = "not_found"

\* a request for a stored measurement answered no_rules
C4_WitnessNoRules ==
    /\ Responded
    /\ WellFormed(body)
    /\ sizeRulesT = {}
    /\ body.measurement_id[1] \in DOMAIN measurementsT
    /\ ErrorOf(response) = "no_rules"

\* the fields of a string split at each '-'
RECURSIVE SplitDash(_)
SplitDash(str) ==
    IF \A k \in 1..Len(str) : str[k] # "-" THEN <<str>>
    ELSE LET k == CHOOSE k \in 1..Len(str) : str[k] = "-" /\ \A h \in 1..(k - 1) : str[h] # "-"
         IN  <<SubSeq(str, 1, k - 1)>> \o SplitDash(SubSeq(str, k + 1, Len(str)))

Digits == {"0", "1", "2", "3", "4", "5", "6", "7", "8", "9"}

DigitValue(c) ==
    CASE c = "0" -> 0 [] c = "1" -> 1 [] c = "2" -> 2 [] c = "3" -> 3 [] c = "4" -> 4
      [] c = "5" -> 5 [] c = "6" -> 6 [] c = "7" -> 7 [] c = "8" -> 8 [] c = "9" -> 9

IsDecimal(f) == f # << >> /\ \A k \in 1..Len(f) : f[k] \in Digits

RECURSIVE ParseDecimal(_)
ParseDecimal(f) ==
    IF Len(f) = 1 THEN DigitValue(f[1])
    ELSE 10 * ParseDecimal(SubSeq(f, 1, Len(f) - 1)) + DigitValue(f[Len(f)])

ProfileOrder == <<"thumb", "index", "middle", "ring", "pinky">>

\* C10 (profile shape): the size_profile of a 200 response is exactly five
\* integers joined by '-', the i-th being the size per_finger reports for the
\* i-th finger of thumb, index, middle, ring, pinky; the row stored by the
\* request holds the same profile.
C10_ProfileShape ==
    (Responded /\ response.status = 200) =>
        LET fields == SplitDash(response.size_profile)
        IN  /\ Len(fields) = 5
            /\ \A i \in 1..5 :
                  /\ IsDecimal(fields[i])
                  /\ ParseDecimal(fields[i]) = response.per_finger[ProfileOrder[i]].size
            /\ recommendationsT # << >>
            /\ recommendationsT[Len(recommendationsT)].sizeProfile = response.size_profile

\* a 200 response with a two-digit size and a different size on another finger
C10_Witness ==
    /\ Responded
    /\ response.status = 200
    /\ response.per_finger["thumb"].size >= 10
    /\ response.per_finger["pinky"].size # response.per_finger["thumb"].size
    /\ response.per_finger["index"].size # response.per_finger["pinky"].size

\* the stored measurement the request in flight asks for
KnownMeasurement ==
    /\ WellFormed(body)
    /\ body.measurement_id[1] \in DOMAIN measurementsT

\* the fingers, in profile order, a measurement has no data for
MissingFingers(fingers) ==
    SelectSeq(ProfileOrder, LAMBDA n : n \notin DOMAIN fingers)

\* the rows of recommendations when the request in flight arrived
RecommendationsAtStart == dbAtStart[6]

\* C11 (missing finger): a request for a stored measurement that lacks data
\* for one or more of the five fingers, on a chart that has rules, ends in
\* validation_error (400) whose message names the first missing finger in the
\* order thumb, index, middle, ring, pinky, and writes no recommendation.
C11_MissingFingerReported ==
    (/\ Responded
     /\ KnownMeasurement
     /\ sizeRulesT # {}
     /\ MissingFingers(measurementsT[body.measurement_id[1]]) # << >>) =>
        /\ ErrorOf(response) = "validation_error"
        /\ response.status = 400
        /\ response.message = <<"Measurement missing data for finger: ",
                                Head(MissingFingers(measurementsT[body.measurement_id[1]]))>>
        /\ recommendationsT = RecommendationsAtStart

C12_WitnessNotFound ==
    /\ Responded
    /\ WellFormed(body)
    /\ body.measurement_id[1] \notin DOMAIN measurementsT
    /\ sizeRulesT # {}
    /\ ErrorOf(response) = "not_found"
    /\ recommendationsT # << >>

\* the reads of a request that ran to its end
AllReads == <<"measurements", "size_rules", "size_rules_config", "nail_sizes", "size_sets">>

\* C13 (one write, last): while a request runs, and when it has ended in an
\* error, the repository is what it was when the request arrived, so a
\* request abandoned at any point before the insert has changed nothing; a
\* request that ended in 200 has appended exactly one row to recommendations
\* and changed nothing else, and it did so after every read, with all five
\* fingers matched and the sets ranked.
C13_SingleFinalWrite ==
    pc # "idle" =>
        IF Responded /\ response.status = 200
        THEN /\ Len(recommendationsT) = Len(RecommendationsAtStart) + 1
             /\ SubSeq(recommendationsT, 1, Len(RecommendationsAtStart)) = RecommendationsAtStart
             /\ \A t \in 1..5 : dbvars[t] = dbAtStart[t]
             /\ reads = AllReads
             /\ DOMAIN loc.perFinger = FingerNameSet
             /\ loc.matchingSets = matchingSets(loc.perFinger, sizeSetsT)
        ELSE dbvars = dbAtStart

\* a second successful request: its row follows the row of the first
C13_Witness ==
    /\ Responded
    /\ response.status = 200
    /\ Len(recommendationsT) = 2
    /\ RecommendationsAtStart # << >>

\* a request that has matched the fingers and ranked the sets but not yet
\* written, after an earlier request had stored a row
C13_WitnessBeforeWrite ==
    /\ pc = "insert"
    /\ loc.matchingSets # << >>
    /\ recommendationsT = RecommendationsAtStart
    /\ recommendationsT # << >>

\* all requests of SpecConc, the running one first
Invocations == <<Running>> \o suspended

\* the requests answered 200
Succeeded ==
    {r \in 1..Len(Invocations) :
        Invocations[r].response # NoRow /\ Invocations[r].response.status = 200}

\* the ways to give every successful request a row of its own: the row holds
\* the request's measurement and the profile it was answered
RowAssignments ==
    {f \in [Succeeded -> 1..Len(recommendationsT)] :
        /\ \A r1, r2 \in Succeeded : r1 # r2 => f[r1] # f[r2]
        /\ \A r \in Succeeded :
              /\ recommendationsT[f[r]].measurementId = Invocations[r].body.measurement_id[1]
              /\ recommendationsT[f[r]].sizeProfile = Invocations[r].response.size_profile}

IsPrefix(s1, s2) == Len(s1) <= Len(s2) /\ SubSeq(s2, 1, Len(s1)) = s1

\* C14 (append-only log): under every interleaving of requests the rows of
\* recommendations are as many as the requests answered 200 so far, each of
\* these requests has a row of its own (requests for the same measurement
\* are not merged), and every step keeps the rows that exist, unchanged and
\* in place.
C14_AppendOnly ==
    /\ [](/\ Len(recommendationsT) = Cardinality(Succeeded)
          /\ RowAssignments # {})
    /\ [][IsPrefix(recommendationsT, recommendationsT')]_vars

\* two requests for the same measurement that both arrived while the log was
\* empty and were both answered 200
C14_Witness ==
    /\ Cardinality(Succeeded) >= 2
    /\ \E r1, r2 \in Succeeded :
          /\ r1 # r2
          /\ Invocations[r1].body = Invocations[r2].body
          /\ Invocations[r1].dbAtStart[6] = << >>
          /\ Invocations[r2].dbAtStart[6] = << >>

\* two overlapping requests for different measurements, both answered 200
C14_WitnessDifferent ==
    \E r1, r2 \in Succeeded :
        /\ Invocations[r1].body # Invocations[r2].body
        /\ Invocations[r1].dbAtStart[6] = << >>
        /\ Invocations[r2].dbAtStart[6] = << >>

Ranked == sResult # NotCalled

\* the number of positions of ProfileOrder from i on in which the recommended
\* sizes differ from the sizes of a set
RECURSIVE Hamming(_, _, _)
Hamming(sizes, set, i) ==
    IF i > Len(ProfileOrder) THEN 0
    ELSE (IF sizes[ProfileOrder[i]].size = set.sizes[ProfileOrder[i]] THEN 0 ELSE 1)
         + Hamming(sizes, set, i + 1)

\* the positions in the listing of the sets within two differences
NearSets == {k \in 1..Len(sSets) : Hamming(sSizes, sSets[k], 1) <= 2}

\* the position in the listing of the set an entry of matching_sets names
ListedAt(entry) == CHOOSE k \in 1..Len(sSets) : entry.set_id = <<"set_", sSets[k].id>>

\* C15 (sets within two differences): matching_sets has one entry for each
\* listed set whose Hamming distance to the five recommended sizes is at most
\* 2 and no other entry; the entry carries the set's name, its diff is that
\* distance and its exact_match is true exactly when the diff is 0.
C15_HammingFilter ==
    Ranked =>
        LET out == sResult.matching_sets
        IN  /\ Len(out) = Cardinality(NearSets)
            /\ \A k \in NearSets : \E e \in 1..Len(out) : out[e].set_id = <<"set_", sSets[k].id>>
            /\ \A e \in 1..Len(out) :
                  /\ \E k \in NearSets : out[e].set_id = <<"set_", sSets[k].id>>
                  /\ out[e].set_name = sSets[ListedAt(out[e])].name
                  /\ out[e].diff = Hamming(sSizes, sSets[ListedAt(out[e])], 1)
                  /\ out[e].exact_match = (out[e].diff = 0)

\* a listing with an exact set, a set at distance 2 and a set at distance 3:
\* the first two are returned, the third is not
C15_Witness ==
    /\ Ranked
    /\ Len(sSets) = 3
    /\ Len(sResult.matching_sets) = 2
    /\ \E e \in 1..2 : sResult.matching_sets[e].exact_match
    /\ \E e \in 1..2 : sResult.matching_sets[e].diff = 2
    /\ \E k \in 1..3 : Hamming(sSizes, sSets[k], 1) = 3

\* C16 (ranking): matching_sets is in ascending order of diff, entries of
\* equal diff are in the order of the repository listing, the best match is
\* the id of the first entry and none when there is no entry, and an exact
\* set precedes every set that is not exact.
C16_RankedByDiff ==
    Ranked =>
        LET out == sResult.matching_sets
        IN  /\ \A a, b \in 1..Len(out) :
                  a < b =>
                      /\ out[a].diff <= out[b].diff
                      /\ out[a].diff = out[b].diff => ListedAt(out[a]) < ListedAt(out[b])
                      /\ out[b].exact_match => out[a].exact_match
            /\ sResult.bestMatchSetId =
                  IF out = << >> THEN None ELSE Some(sSets[ListedAt(out[1])].id)

\* the exact set listed last comes out first, ahead of two sets of equal diff
\* that keep their order
C16_Witness ==
    /\ Ranked
    /\ Len(sSets) = 3
    /\ Len(sResult.matching_sets) = 3
    /\ Hamming(sSizes, sSets[3], 1) = 0
    /\ Hamming(sSizes, sSets[1], 1) = Hamming(sSizes, sSets[2], 1)
    /\ sSets[1].id > sSets[2].id
    /\ sResult.matching_sets[2].set_id = <<"set_", sSets[1].id>>
    /\ sResult.bestMatchSetId = Some(sSets[3].id)

\* nothing within two differences: no best match
C16_WitnessNone ==
    /\ Ranked
    /\ sSets # << >>
    /\ sResult.matching_sets = << >>
    /\ sResult.bestMatchSetId = None

\* the row the request in flight has inserted
StoredRow == recommendationsT[Len(RecommendationsAtStart) + 1]

\* C17 (stored row agrees with the response): the row written by a request
\* answered 200 names the request's measurement, its sizeProfile is the
\* returned size_profile, its size, label and fit of each finger are the
\* returned size, size_label and fit, and its matchingSetId is the id of the
\* first entry of the returned matching_sets, null when there is none.
C17_StoredAgreesWithResponse ==
    (Responded /\ response.status = 200) =>
        /\ StoredRow.measurementId = response.measurement_id
        /\ StoredRow.sizeProfile = response.size_profile
        /\ DOMAIN StoredRow.sizes = FingerNameSet
        /\ \A n \in FingerNameSet :
              /\ StoredRow.sizes[n].size = response.per_finger[n].size
              /\ StoredRow.sizes[n].label = response.per_finger[n].size_label
              /\ StoredRow.sizes[n].fit = response.per_finger[n].fit
        /\ IF response.matching_sets = << >>
           THEN StoredRow.matchingSetId = None
           ELSE /\ StoredRow.matchingSetId # None
                /\ response.matching_sets[1].set_id = <<"set_", StoredRow.matchingSetId[1]>>

\* a 200 response with two matching sets, fingers of different fit and a
\* labelled size, stored after an earlier row
C17_Witness ==
    /\ Responded
    /\ response.status = 200
    /\ Len(response.matching_sets) >= 2
    /\ response.matching_sets[1].set_id # response.matching_sets[Len(response.matching_sets)].set_id
    /\ \E n1, n2 \in FingerNameSet : response.per_finger[n1].fit # response.per_finger[n2].fit
    /\ \E n \in FingerNameSet : response.per_finger[n].size_label = <<"X", "S">>
    /\ RecommendationsAtStart # << >>

\* a 200 response without matching sets: the stored matchingSetId is null
C17_WitnessNoSet ==
    /\ Responded
    /\ response.status = 200
    /\ sizeSetsT # << >>
    /\ response.matching_sets = << >>
    /\ StoredRow.matchingSetId = None

\* what steps 5 to 9 answer for the measurement and the rule listing of the
\* request in flight when the chart's config is cfg
ResponseUnder(cfg) ==
    LET r == PerFingerLoop(1, << >>, measurementsT[body.measurement_id[1]],
                           loc.rules, cfg, nailSizesT)
    IN  IF r.kind = "missing"
        THEN ErrorResponse(400, "validation_error",
                           <<"Measurement missing data for finger: ", r.finger>>)
        ELSE IF r.kind = "TypeError"
        THEN ErrorResponse(500, "internal_error", <<"An unexpected error occurred">>)
        ELSE [status |-> 200,
              measurement_id |-> body.measurement_id[1],
              size_profile |-> SizeProfile(r.perFinger),
              per_finger |-> r.perFinger,
              matching_sets |-> PublicSets(matchingSets(r.perFinger, sizeSetsT))]

\* the request in flight has read the chart's config
ConfigWasRead == \E k \in 1..Len(reads) : reads[k] = "size_rules_config"

\* C18 (default config): a request that gets as far as reading the config is
\* answered, whether the chart has a config row or not, what steps 5 to 9
\* answer under the stored row, and under {size_down, 0.3} when there is no
\* row; so the answer without a row is the answer with the row
\* {size_down, 0.3}, and the absence of the row is no failure of its own.
C18_DefaultConfig ==
    (Responded /\ ConfigWasRead) =>
        response = ResponseUnder(IF configT = NoRow THEN Config("size_down", 30) ELSE configT)

\* a width outside every rule of the chart
OutsideAllRules(w) == \A r \in sizeRulesT : w < r.minWidthMm \/ w > r.maxWidthMm

\* a 200 response without a config row in which a finger whose width is
\* outside every rule but within 0.3 mm of one is answered snug (size_down)
C18_Witness ==
    /\ Responded
    /\ configT = NoRow
    /\ response.status = 200
    /\ \E n \in FingerNameSet :
          /\ OutsideAllRules(response.per_finger[n].width_mm)
          /\ \E r \in sizeRulesT :
                BoundaryDiff(r, response.per_finger[n].width_mm) <= 30
          /\ response.per_finger[n].fit = "snug"

\* the catalog rows of a size that carry a label
LabelledRows(sizeNumber) ==
    {r \in nailSizesT : r.sizeNumber = sizeNumber /\ r.label # None}

\* the request in flight has read the catalog
CatalogWasRead == \E k \in 1..Len(reads) : reads[k] = "nail_sizes"

\* a finger of the measurement no rule of the chart applies to
UncoveredFinger(fingers) ==
    \E n \in DOMAIN fingers : \A r \in sizeRulesT : r.finger # n /\ r.finger # "all"

\* C19 (size label): in a 200 response the size_label of every finger is the
\* label of the catalog row whose sizeNumber is the finger's size, and the
\* decimal string of the size when the catalog has no such row or the row has
\* no label; and a request that has read the catalog fails only for a missing
\* finger or for a finger without an applicable rule, never for its catalog.
C19_LabelOrNumber ==
    (Responded /\ CatalogWasRead) =>
        IF response.status = 200
        THEN \A n \in FingerNameSet :
                LET e == response.per_finger[n]
                IN  IF LabelledRows(e.size) # {}
                    THEN \E r \in LabelledRows(e.size) : e.size_label = r.label[1]
                    ELSE IsDecimal(e.size_label) /\ ParseDecimal(e.size_label) = e.size
        ELSE \/ MissingFingers(measurementsT[body.measurement_id[1]]) # << >>
             \/ UncoveredFinger(measurementsT[body.measurement_id[1]])

\* a 200 response with a labelled size, a size whose row has no label and a
\* two-digit size the catalog does not list
C19_Witness ==
    /\ Responded
    /\ response.status = 200
    /\ nailSizesT # {}
    /\ \E n \in FingerNameSet : LabelledRows(response.per_finger[n].size) # {}
    /\ \E n \in FingerNameSet :
          \E r \in nailSizesT : r.sizeNumber = response.per_finger[n].size /\ r.label = None
    /\ \E n \in FingerNameSet :
          /\ response.per_finger[n].size >= 10
          /\ \A r \in nailSizesT : r.sizeNumber # response.per_finger[n].size

\* a 200 response with an empty catalog
C19_WitnessEmptyCatalog ==
    /\ Responded
    /\ response.status = 200
    /\ nailSizesT = {}
    /\ response.per_finger["thumb"].size_label = <<"1", "2">>

\* a rule list the repository can return: the rows by descending priority
\* (orderBy(desc(priority)), which leaves the order of equal priorities open)
ByPriority(rules) ==
    \A k \in 1..(Len(rules) - 1) : rules[k].priority >= rules[k + 1].priority

\* the (size, fit) of a call's result, the exception when it threw
Outcome(r) == IF r.kind = "ok" THEN <<r.size, r.fit>> ELSE <<r.kind>>

\* C20 (determinism): for fixed rules, config, finger and width the matcher
\* yields the same (size, fit) for every order in which the repository can
\* return the rows: exchanging two rows of equal priority in a listing by
\* descending priority does not change the result.
C20_OrderIndependent ==
    (Called /\ ByPriority(mRules)) =>
        \A i \in 1..Len(mRules), j \in 1..Len(mRules) :
            (i < j /\ mRules[i].priority = mRules[j].priority) =>
                Outcome(applyRulesToFinger(mWidth, mFinger, Swapped(i, j), mConfig))
                    = Outcome(mResult)

\* ------------------------------------------ properties of the admin router

\* C21 (rule ranges): after any sequence of POST /rules, PUT /rules/:id and
\* DELETE /rules/:id every stored rule has minWidthMm < maxWidthMm.
C21_RulesKeepRange == \A r \in sizeRulesT : r.minWidthMm < r.maxWidthMm

\* C22 (config row): the config row of the chart, when there is one, has a
\* betweenSizes of size_up or size_down and a toleranceMm of at least 0.
C22_ConfigValid ==
    configT # NoRow =>
        /\ configT.betweenSizes \in {"size_up", "size_down"}
        /\ configT.toleranceMm >= 0

\* the header is 'Bearer <token>' with a token that verifies under the
\* access-token secret and carries type 'admin'
Authorised(auth) ==
    /\ auth # None
    /\ auth[1].scheme = "Bearer"
    /\ jwtSecret # None
    /\ auth[1].token.wellFormed
    /\ auth[1].token.key = jwtSecret[1]
    /\ ~auth[1].token.expired
    /\ auth[1].token.type = "admin"

\* a request of the protected router has been received
AdminReceived == adminReq # NoRow /\ "route" \in DOMAIN adminReq

\* the route's handler has run for the request
HandlerRan == AdminReceived /\ DOMAIN adminReq \cap {"body", "id"} # {}

\* C23 as stated (every other request is answered 401): a request that is not
\* authorised is answered with status 401 and code unauthorized.
C23_Unauthorised401 ==
    (AdminReceived /\ ~Authorised(adminReq.auth)) =>
        /\ adminRes # CallNext
        /\ adminRes.status = 401
        /\ adminRes.error = "unauthorized"

\* C23 (protected router): a handler runs only for an authorised request; any
\* other request is answered 401 unauthorized, or 500 internal_error when the
\* server has no JWT_SECRET and the header is a Bearer one, and the step that
\* answers it changes no stored data.
C23_OnlyAuthorisedHandled ==
    /\ [](AdminReceived =>
            /\ (adminRes = CallNext \/ HandlerRan) => Authorised(adminReq.auth)
            /\ ~Authorised(adminReq.auth) =>
                  IF jwtSecret = None /\ adminReq.auth # None /\ adminReq.auth[1].scheme = "Bearer"
                  THEN adminRes.status = 500 /\ adminRes.error = "internal_error"
                  ELSE adminRes.status = 401 /\ adminRes.error = "unauthorized")
    /\ [][(adminReq' # NoRow /\ "route" \in DOMAIN adminReq' /\ ~Authorised(adminReq'.auth)) =>
              UNCHANGED <<dbvars, adminsT, ruleSerial>>]_vars

\* a Bearer request to a server without JWT_SECRET was answered 500
C23_Witness ==
    /\ AdminReceived
    /\ jwtSecret = None
    /\ adminReq.auth # None
    /\ adminReq.auth[1].scheme = "Bearer"
    /\ adminRes.status = 500

\* a request with a token signed with another secret was answered 401 after
\* rules had been stored
C23_WitnessForged ==
    /\ AdminReceived
    /\ sizeRulesT # {}
    /\ adminReq.auth # None
    /\ adminReq.auth[1].scheme = "Bearer"
    /\ adminReq.auth[1].token.wellFormed
    /\ adminReq.auth[1].token.key # "access-secret"
    /\ adminRes.status = 401

\* an authorised request reached its handler and stored a rule
C23_WitnessHandled ==
    /\ HandlerRan
    /\ Authorised(adminReq.auth)
    /\ adminRes.status = 201

\* the body names a stored admin and that admin's password
ValidCredentials(b) ==
    /\ b.json
    /\ {"email", "password"} \subseteq DOMAIN b.fields
    /\ \E a \in adminsT : a.email = b.fields.email /\ a.passwordHash = BcryptHash(b.fields.password)

\* the body has a password and an email that no stored admin has
UnknownEmail(b) ==
    /\ b.json
    /\ {"email", "password"} \subseteq DOMAIN b.fields
    /\ b.fields.email # ""
    /\ b.fields.password # ""
    /\ \A a \in adminsT : a.email # b.fields.email

\* the body has the email of a stored admin and a password that is not theirs
WrongPassword(b) ==
    /\ b.json
    /\ {"email", "password"} \subseteq DOMAIN b.fields
    /\ b.fields.password # ""
    /\ \E a \in adminsT : a.email = b.fields.email /\ a.passwordHash # BcryptHash(b.fields.password)

LoginReceived == adminReq # NoRow /\ adminReq.route = "POST /auth/login"

C29_WitnessUnknown == LoginReceived /\ UnknownEmail(adminReq.body) /\ adminRes.status = 401

\* tokens were issued
C29_WitnessTokens == LoginReceived /\ "access_token" \in DOMAIN adminRes

\* ------------------------------------------ properties of the rate limiter

\* the maxRequests of the limiter that owns a key
MaxOfKey(k) == IF k[2] = "admin" THEN AdminMax ELSE PublicMax

\* the requests of a key that went on to the handler at the ticks lo..hi
RECURSIVE PassedBetween(_, _, _)
PassedBetween(k, lo, hi) ==
    IF hi < lo \/ hi < 0 THEN 0
    ELSE (IF hi <= MaxClock THEN passed[k][hi] ELSE 0) + PassedBetween(k, lo, hi - 1)

LimiterAnswered == rlRes # NoRow

Rejected == LimiterAnswered /\ ~rlRes.next

\* C24 (requests per minute): in every interval of one window length that
\* ends now, no key has more passed requests than its limiter's maxRequests,
\* and a request that is not passed is answered 429 rate_limited with a
\* Retry-After.
C24_SlidingLimit ==
    /\ \A k \in Keys : PassedBetween(k, now - WindowMs + 1, now) <= MaxOfKey(k)
    /\ Rejected =>
          /\ rlRes.status = 429
          /\ rlRes.error = "rate_limited"
          /\ "retry_after" \in DOMAIN rlRes

\* C27 (window entry): a stored count is between 1 and maxRequests; while the
\* window of an entry lasts, the requests passed since its creation are as
\* many as its count, so at most maxRequests; a step of the limiter that
\* rejects a request leaves the store as it was.
C27_WindowCount ==
    /\ [](\A k \in Keys :
            store[k] # NoRow =>
                /\ store[k].count \in 1..MaxOfKey(k)
                /\ now <= store[k].resetAt =>
                      /\ PassedBetween(k, store[k].resetAt - WindowMs, now) = store[k].count
                      /\ PassedBetween(k, store[k].resetAt - WindowMs, store[k].resetAt)
                            <= MaxOfKey(k))
    /\ [][(LimitRequest /\ ~rlRes'.next) => (store' = store /\ passed' = passed)]_vars

\* a full window: the key's count is maxRequests and a request was rejected
\* in the tick the window ends
C27_Witness ==
    /\ Rejected
    /\ store[rlReq.key].count = MaxOfKey(rlReq.key)
    /\ now = store[rlReq.key].resetAt

\* the entry of the key is absent or its window is over
Expired(k) == store[k] = NoRow \/ now > store[k].resetAt

\* C28 (admitted again): a request whose key has no entry or an entry with
\* now > resetAt is passed and leaves the entry {count 1, resetAt now +
\* windowMs}; the resetAt of a stored entry changes only in such a step, so
\* rejected requests never move it, and the eviction removes expired entries
\* only.
C28_AdmittedAfterReset ==
    /\ [][\A k \in Keys :
            (LimitRequest /\ rlReq'.key = k /\ Expired(k)) =>
                /\ rlRes'.next
                /\ store'[k] = Entry(1, now + WindowMs)
                /\ passed'[k][now] = passed[k][now] + 1]_vars
    /\ [][\A k \in Keys :
            (store[k] # NoRow /\ store'[k] # store[k]) =>
                \/ now > store[k].resetAt
                \/ /\ store'[k] # NoRow
                   /\ store'[k].resetAt = store[k].resetAt
                   /\ rlRes'.next]_vars

\* a key with passed requests in the window before is passed again and
\* starts a new window
C28_Witness ==
    /\ LimiterAnswered
    /\ rlRes.next
    /\ store[rlReq.key] = Entry(1, now + WindowMs)
    /\ now > WindowMs
    /\ PassedBetween(rlReq.key, now - WindowMs, now - 1) >= 1
    /\ PassedBetween(rlReq.key, now, now) = 1

\* the eviction emptied the store after a window ended
C28_WitnessEvicted ==
    /\ now > WindowMs
    /\ \A k \in Keys : store[k] = NoRow
    /\ Rejected

\* ------------------------------------------ properties of the previews

\* some rule applicable to the finger contains the width, both ends inclusive
SomeRuleContains ==
    \E i \in DOMAIN mRules :
        /\ mRules[i].finger = "all" \/ mRules[i].finger = mFinger
        /\ mRules[i].minWidthMm <= mWidth
        /\ mWidth <= mRules[i].maxWidthMm

\* C25 (preview and engine): when some rule applicable to the finger contains
\* the width, the API preview and applyRulesToFinger, run on the same rules,
\* give the finger the same size.
C25_PreviewAgrees ==
    (Called /\ pResult # NotCalled /\ SomeRuleContains) => pResult.size = mResult.size

\* both ran on a width inside a rule for all fingers and a rule for the
\* finger of equal priority, the rule for all fingers listed first
C25_Witness ==
    /\ Called
    /\ pResult # NotCalled
    /\ SomeRuleContains
    /\ \E i, j \in DOMAIN mRules :
          /\ i < j
          /\ mRules[i].finger = "all"
          /\ mRules[j].finger = mFinger
          /\ mRules[i].priority = mRules[j].priority
          /\ mRules[i].mappedSize # mRules[j].mappedSize
          /\ Contains(mRules[i], mWidth)
          /\ Contains(mRules[j], mWidth)

\* the two differ where no rule contains the width
C25_WitnessDiffer ==
    /\ Called
    /\ pResult # NotCalled
    /\ ~SomeRuleContains
    /\ mResult.kind # "TypeError"
    /\ pResult.size # mResult.size

\* the rows of a listing that the dashboard preview may pick for the
\* measurement: finger equal or 'all', min <= width < max
Candidates(listing, finger, widthMm) ==
    {i \in DOMAIN listing :
        /\ listing[i].finger \in {finger, "all"}
        /\ listing[i].minWidthMm <= widthMm
        /\ widthMm < listing[i].maxWidthMm}

C30_WitnessFirst ==
    /\ dResult # NotCalled
    /\ dResult.rule_id # None
    /\ \E i \in Candidates(dResult.listing, mFinger, mWidth) :
          /\ dResult.listing[i].id # dResult.rule_id[1]
          /\ dResult.listing[i].mappedSize # dResult.mapped_size[1]

\* ------------------------------------------ properties of edits during a request

\* the rules, config, catalog and sets as they stood at the instants of the
\* invocation: when the request arrived and after every edit since
Instants == {<<dbAtStart[2], dbAtStart[3], dbAtStart[4], dbAtStart[5]>>} \cup snapshots

\* what the pipeline answers the request in flight from the tables of one
\* instant, the rules listed as l
ResponseAt(instant, l) ==
    IF Len(l) = 0
    THEN ErrorResponse(400, "no_rules",
                       <<"Size mapping rules have not been configured. Contact admin.">>)
    ELSE LET r == PerFingerLoop(1, << >>, measurementsT[body.measurement_id[1]], l,
                                EffectiveConfig(instant[2]), instant[3])
         IN  IF r.kind = "missing"
             THEN ErrorResponse(400, "validation_error",
                                <<"Measurement missing data for finger: ", r.finger>>)
             ELSE IF r.kind = "TypeError"
             THEN ErrorResponse(500, "internal_error", <<"An unexpected error occurred">>)
             ELSE [status |-> 200,
                   measurement_id |-> body.measurement_id[1],
                   size_profile |-> SizeProfile(r.perFinger),
                   per_finger |-> r.perFinger,
                   matching_sets |-> PublicSets(matchingSets(r.perFinger, instant[4]))]

\* C26 (one instant): the result a request returns equals what the pipeline
\* gives from the rules, config, catalog and sets of some single instant of
\* the invocation.
C26_SingleInstant ==
    (pc = "done" /\ response.status = 200) =>
        \E instant \in Instants : \E l \in RuleListings(instant[1]) :
            response = ResponseAt(instant, l)

====
